---- MODULE Spec2Model ----
(***************************************************************************)
(* Verification model of fragments of the engine:                          *)
(*   - the render-stage registry   (src/unnamed/part_000)                  *)
(*   - RenderWindow                (src/unnamed/part_001, lines 1-232)     *)
(* Numbers are the 32-bit integers the bitwise operators of the source     *)
(* work on; a bitmask is kept as the signed value ToInt32 yields.          *)
(***************************************************************************)
EXTENDS Integers, Sequences, FiniteSets, TLC

VARIABLES
    _stageOffset,     \* part_000:28  let _stageOffset = 0
    _name2stageID,    \* part_000:29  own properties of the object _name2stageID
    passed,           \* history: the names addStage was ever called with
    stageCall,        \* the registry call made last: [op, name, list]
    stageRet,         \* what that call returned: [kind, val]
    _width,                   \* part_001:81
    _height,                  \* part_001:82
    _nativeWidth,             \* part_001:83
    _nativeHeight,            \* part_001:84
    _renderPass,              \* part_001:85  0 is null
    _colorTextures,           \* part_001:86  texture ids, 0 is null
    _depthStencilTexture,     \* part_001:87  a texture id, 0 is null
    _swapchainBufferIndices,  \* part_001:88
    _poolHandle,              \* part_001:90  0 is NULL_HANDLE
    windowPool,       \* RenderWindowPool: the record of each handle
    textures,         \* the textures the device created: [width, height, usage, alive]
    framebuffers,     \* FramebufferPool: [renderPass, colorTextures, depthStencilTexture, alive]
    winCall,          \* the RenderWindow call made last
    gfxLog,           \* the device and pool calls that call made, in order
    _device,                  \* part_001:371  the device of the pipeline
    _macros,                  \* part_001:367
    _clusterEnabled,          \* part_001:390
    _bloomEnabled,            \* part_001:391
    _occlusionQueryEnabled,   \* part_001:392
    lastOcclusionArg, \* history: the argument of the last setOcclusionQueryEnabled
    pipeCall,         \* the RenderPipeline call made last
    pipeRet,          \* what that call returned (FALSE for a void call)
    convCall,         \* the scripting value at hand, the conversion called last
    convSrc,          \* the native value that scripting value was made from
    convExit,         \* "return", or "abort" when an assertion stopped it
    convRet,          \* the boolean the conversion returned
    convOut,          \* the output parameter after the call
    bones,            \* the bone data of the skeleton at hand
    boneStack,        \* the frames of the bone projection in progress
    boneCall,         \* the projection called on the skeleton: [fn, bone]
    boneRet           \* what that call returned: [ok, value]

stageVars == <<_stageOffset, _name2stageID, passed, stageCall, stageRet>>

sizeVars == <<_width, _height, _nativeWidth, _nativeHeight>>
ownedVars == <<_renderPass, _colorTextures, _depthStencilTexture,
               _swapchainBufferIndices, _poolHandle>>
gfxVars == <<windowPool, textures, framebuffers>>
windowVars == <<sizeVars, ownedVars, gfxVars, winCall, gfxLog>>

pipeVars == <<_device, _macros, _clusterEnabled, _bloomEnabled,
              _occlusionQueryEnabled, lastOcclusionArg, pipeCall, pipeRet>>

convVars == <<convCall, convSrc, convExit, convRet, convOut>>
boneVars == <<bones, boneStack, boneCall, boneRet>>

vars == <<stageVars, windowVars, pipeVars, convVars, boneVars>>

----------------------------------------------------------------------------
(* Bounds of the model.                                                    *)

\* Ordinary stage names are 1..MaxNames.
MaxNames == 34
\* Longest name list handed to stageIDs.
MaxList == 2
\* Widths and heights are 1..MaxDim.
MaxDim == 2
\* A render pass has 0..MaxColors colour attachments.
MaxColors == 2
MaxKeys == 2
MaxElements == 2
MaxBones == 3
\* initialize is called on one window object at most MaxInits times.
MaxInits == 2

----------------------------------------------------------------------------
(* 32-bit integer arithmetic of the source language.                       *)

\* The least 32-bit signed integer, the value of 1 << 31.
MinInt32 == -2147483647 - 1

\* The low 31 bits of a 32-bit signed value, as a natural number.
Low31(v) == IF v < 0 THEN v - MinInt32 ELSE v

\* Bit i (0..31) of the two's-complement form of v.
Bit(v, i) == IF i = 31 THEN v < 0 ELSE (Low31(v) \div (2 ^ i)) % 2 = 1

RECURSIVE OrNat(_, _)
OrNat(a, b) ==
    IF a = 0 THEN b
    ELSE IF b = 0 THEN a
    ELSE (IF a % 2 = 1 \/ b % 2 = 1 THEN 1 ELSE 0) + 2 * OrNat(a \div 2, b \div 2)

RECURSIVE AndNat(_, _)
AndNat(a, b) ==
    IF a = 0 \/ b = 0 THEN 0
    ELSE (IF a % 2 = 1 /\ b % 2 = 1 THEN 1 ELSE 0) + 2 * AndNat(a \div 2, b \div 2)

\* a | b on 32-bit signed integers.
BitOr(a, b) ==
    LET lo == OrNat(Low31(a), Low31(b))
    IN  IF a < 0 \/ b < 0 THEN lo + MinInt32 ELSE lo

\* a & b on 32-bit signed integers.
BitAnd(a, b) ==
    LET lo == AndNat(Low31(a), Low31(b))
    IN  IF a < 0 /\ b < 0 THEN lo + MinInt32 ELSE lo

\* 1 << n: the shift count is taken modulo 32 and the result is a 32-bit
\* signed integer, so 1 << 31 is MinInt32 and 1 << 32 is 1 again.
ShiftLeftOne(n) ==
    LET c == n % 32
    IN  IF c = 31 THEN MinInt32 ELSE 2 ^ c

----------------------------------------------------------------------------
(* The render-stage registry, src/unnamed/part_000.                        *)

\* Name 0 stands for a key that every object literal inherits from
\* Object.prototype ("constructor", "toString", ...); 1..MaxNames are
\* ordinary names.
InheritedNames == {0}

Undefined == [kind |-> "undefined", val |-> 0]
Number(v) == [kind |-> "number", val |-> v]
\* A value that is neither undefined nor a number (an inherited function).
InheritedValue == [kind |-> "object", val |-> 0]

NoCall == [op |-> "none", name |-> 0, list |-> <<>>]

\* _name2stageID[name]: an own property, else the inherited one, else
\* undefined.
Lookup(map, name) ==
    IF name \in DOMAIN map THEN Number(map[name])
    ELSE IF name \in InheritedNames THEN InheritedValue
    ELSE Undefined

\* ToInt32 of an operand of |= : a number is itself, a function is NaN -> 0.
ToInt32(x) == IF x.kind = "number" THEN x.val ELSE 0

StageInit ==
    /\ _stageOffset = 0
    /\ _name2stageID = << >>
    /\ passed = {}
    /\ stageCall = NoCall
    /\ stageRet = Undefined

\* The map after _name2stageID[name] = id.
Assign(map, name, id) ==
    [n \in (DOMAIN map) \cup {name} |-> IF n = name THEN id ELSE map[n]]

addStageNoGuard(name) ==
    /\ _name2stageID' = Assign(_name2stageID, name, ShiftLeftOne(_stageOffset))
    /\ _stageOffset' = _stageOffset + 1
    /\ passed' = passed \cup {name}
    /\ stageCall' = [op |-> "addStage", name |-> name, list |-> <<>>]
    /\ stageRet' = Undefined

addStageClobber(name) ==
    /\ IF Lookup(_name2stageID, name) # Undefined
       THEN UNCHANGED <<_name2stageID, _stageOffset>>
       ELSE /\ _name2stageID' = [n \in {name} |-> ShiftLeftOne(_stageOffset)]
            /\ _stageOffset' = _stageOffset + 1
    /\ passed' = passed \cup {name}
    /\ stageCall' = [op |-> "addStage", name |-> name, list |-> <<>>]
    /\ stageRet' = Undefined

addStage(name) ==
    /\ IF Lookup(_name2stageID, name) # Undefined
       THEN UNCHANGED <<_name2stageID, _stageOffset>>
       ELSE /\ _name2stageID' = Assign(_name2stageID, name, ShiftLeftOne(_stageOffset))
            /\ _stageOffset' = _stageOffset + 1
    /\ passed' = passed \cup {name}
    /\ stageCall' = [op |-> "addStage", name |-> name, list |-> <<>>]
    /\ stageRet' = Undefined

\* The value stageID(name) returns in the registry state `map`.
stageIDValue(map, name) ==
    LET id == Lookup(map, name)
    IN  IF id = Undefined THEN Number(-1) ELSE id

stageID(name) ==
    /\ stageRet' = stageIDValue(_name2stageID, name)
    /\ stageCall' = [op |-> "stageID", name |-> name, list |-> <<>>]
    /\ UNCHANGED <<_stageOffset, _name2stageID, passed>>

\* The loop of stageIDs: key after the names nameList[i..] were visited.
RECURSIVE stageIDsLoopLast(_, _, _, _)
stageIDsLoopLast(map, nameList, i, key) ==
    IF i > Len(nameList) THEN key
    ELSE LET id == Lookup(map, nameList[i])
         IN  stageIDsLoopLast(map, nameList, i + 1,
                 IF id # Undefined THEN ToInt32(id) ELSE key)

RECURSIVE stageIDsLoop(_, _, _, _)
stageIDsLoop(map, nameList, i, key) ==
    IF i > Len(nameList) THEN key
    ELSE LET id == Lookup(map, nameList[i])
         IN  stageIDsLoop(map, nameList, i + 1,
                 IF id # Undefined THEN BitOr(key, ToInt32(id)) ELSE key)

stageIDsValue(map, nameList) == stageIDsLoop(map, nameList, 1, 0)

stageIDs(nameList) ==
    /\ stageRet' = Number(stageIDsValue(_name2stageID, nameList))
    /\ stageCall' = [op |-> "stageIDs", name |-> 0, list |-> nameList]
    /\ UNCHANGED <<_stageOffset, _name2stageID, passed>>

\* The names that calls are repeated with and that are looked up: the
\* inherited key, the first name and the two names on either side of the
\* 32-bit wrap of the shift.
ProbeNames == {0, 1, 32, 33}

\* The first two names are registered in either order; later fresh names
\* are taken up in index order (names are uninterpreted keys, so this
\* loses no behaviour up to renaming).
FreeNames == {1, 2}

\* The names addStage is called with: a probe name that is registered or
\* inherited (a repeated call), a free name, or the least unregistered
\* name.
Fresh == {n \in 1 .. MaxNames : n \notin DOMAIN _name2stageID}
CallNames ==
    {n \in ProbeNames : n \notin Fresh}
        \cup {n \in Fresh : n \in FreeNames \/ \A m \in Fresh : n <= m}

\* The lists stageIDs is called with.
NameLists == UNION {[1 .. k -> ProbeNames] : k \in 0 .. MaxList}

----------------------------------------------------------------------------
(* Properties of the registry.                                             *)

Registered == DOMAIN _name2stageID
SetBits(v) == {i \in 0 .. 31 : Bit(v, i)}

\* C1: after any sequence of addStage calls, the stageID of every
\* registered name has exactly one of its 32 bits set and no two distinct
\* registered names have the same stageID.
C1_DistinctSingleBit ==
    \A n \in Registered :
        /\ stageIDValue(_name2stageID, n).kind = "number"
        /\ Cardinality(SetBits(stageIDValue(_name2stageID, n).val)) = 1
        /\ \A m \in Registered :
              m # n => stageIDValue(_name2stageID, m) # stageIDValue(_name2stageID, n)

\* C2: addStage(name) for a name that is already registered leaves the
\* whole map (that name's bitmask and every other name's) and the
\* bit-offset counter unchanged.
C2_AddStageIdempotent ==
    [][(stageCall'.op = "addStage" /\ stageCall'.name \in Registered)
          => (_name2stageID' = _name2stageID /\ _stageOffset' = _stageOffset)]_vars

\* A repeated addStage has run: the name of the last addStage call holds a
\* bitmask other than the one allocated last.
C2_Witness ==
    /\ stageCall.op = "addStage"
    /\ stageCall.name \in Registered
    /\ _stageOffset >= 2
    /\ _name2stageID[stageCall.name] # ShiftLeftOne(_stageOffset - 1)

\* C3: a registered name stays registered and stageID(name) keeps
\* returning the same bitmask across every step (addStage, stageID,
\* stageIDs), hence after every later sequence of calls.
C3_StagesPersist ==
    [][\/ _name2stageID' = _name2stageID
       \/ \A n \in Registered :
             /\ n \in DOMAIN _name2stageID'
             /\ stageIDValue(_name2stageID', n) = stageIDValue(_name2stageID, n)]_vars

\* A second name was registered after a first one, which kept its bitmask.
C3_Witness ==
    \E n, m \in Registered :
        /\ n # m
        /\ stageCall.op = "addStage" /\ stageCall.name = m
        /\ _name2stageID[m] = ShiftLeftOne(_stageOffset - 1)
        /\ stageIDValue(_name2stageID, n) = Number(1)

\* C4: stageID(name) returns the bitmask assigned to a registered name
\* and the sentinel -1 for every name never passed to addStage, and
\* leaves the registry as it was.
C4_StageIDSentinel ==
    [][stageCall'.op = "stageID" =>
          /\ stageCall'.name \in Registered
                => stageRet' = Number(_name2stageID[stageCall'.name])
          /\ stageCall'.name \notin passed => stageRet' = Number(-1)
          /\ UNCHANGED <<_name2stageID, _stageOffset>>]_vars

\* C5: stageIDs(names) is a number whose set bits are exactly the bits
\* set in the bitmask of some registered name of the list; so names that
\* are not registered contribute nothing, and an empty list or a list of
\* unregistered names only yields 0.
C5_StageIDsIsOr ==
    stageCall.op = "stageIDs" =>
        /\ stageRet.kind = "number"
        /\ \A i \in 0 .. 31 :
              Bit(stageRet.val, i) <=>
                  \E k \in 1 .. Len(stageCall.list) :
                      /\ stageCall.list[k] \in Registered
                      /\ Bit(_name2stageID[stageCall.list[k]], i)
        /\ (\A k \in 1 .. Len(stageCall.list) : stageCall.list[k] \notin Registered)
              => stageRet.val = 0

\* stageIDs ran on two registered names with different bitmasks, and on a
\* registered name followed by an unregistered one.
C5_Witness ==
    /\ stageCall.op = "stageIDs"
    /\ Len(stageCall.list) = 2
    /\ stageCall.list[1] \in Registered
    /\ \/ /\ stageCall.list[2] \in Registered
          /\ _name2stageID[stageCall.list[2]] # _name2stageID[stageCall.list[1]]
          /\ stageRet.val < 0
       \/ /\ stageCall.list[2] \notin Registered
          /\ stageCall.list[2] \notin InheritedNames
          /\ stageRet.val = _name2stageID[stageCall.list[1]]

----------------------------------------------------------------------------
(* RenderWindow, src/unnamed/part_001 lines 23-232.                        *)
(* The device's textures and the two pools are kept as sequences; an id    *)
(* or handle is an index, 0 the null reference / NULL_HANDLE.  The title,  *)
(* the attachment formats and shouldSyncSizeWithSwapchain are data that    *)
(* initialize only stores; they are left out.                              *)

NULL_HANDLE == 0
Null == 0

Dims == 1 .. MaxDim

\* info.swapchainBufferIndices is optional.
NoMask == [defined |-> FALSE, val |-> 0]
Mask(v) == [defined |-> TRUE, val |-> v]
\* No bit, bit 0, bit 1, every bit (-1, all attachments on screen), and
\* the sign bit alone.
Masks == {0, 1, 2, -1, MinInt32}

\* IRenderWindowInfo: the size, the number of colour attachments and the
\* presence of a depth-stencil attachment of renderPassInfo, and the mask.
Infos ==
    [width : Dims, height : Dims, colors : 0 .. MaxColors, depth : BOOLEAN,
     mask : {NoMask} \cup {Mask(v) : v \in Masks}]

NoInfo == [width |-> 1, height |-> 1, colors |-> 0, depth |-> FALSE, mask |-> NoMask]

WindowInit ==
    /\ _width = 1
    /\ _height = 1
    /\ _nativeWidth = 1
    /\ _nativeHeight = 1
    /\ _renderPass = Null
    /\ _colorTextures = << >>
    /\ _depthStencilTexture = Null
    /\ _swapchainBufferIndices = 0
    /\ _poolHandle = NULL_HANDLE
    /\ windowPool = << >>
    /\ textures = << >>
    /\ framebuffers = << >>
    /\ winCall = [op |-> "none", width |-> 1, height |-> 1, info |-> NoInfo]
    /\ gfxLog = << >>

\* RenderWindowPool.alloc(): the record of a fresh handle, every field
\* zero (the pools of memory-pools are not part of these files).
FreshWindowRecord ==
    [FRAMEBUFFER |-> Null,
     HAS_ON_SCREEN_ATTACHMENTS |-> 0,
     HAS_OFF_SCREEN_ATTACHMENTS |-> 0]

\* device.createTexture(new GFXTextureInfo(TEX2D, usage, format, w, h))
NewTexture(usage, w, h) == [usage |-> usage, width |-> w, height |-> h, alive |-> TRUE]

LogEntry(op, obj, w, h) == [op |-> op, obj |-> obj, width |-> w, height |-> h]

\* !(this._swapchainBufferIndices & (1 << i))
ColorIsOffScreenNextBit(mask, i) == BitAnd(mask, ShiftLeftOne(i + 1)) = 0
ColorIsOffScreen(mask, i) == BitAnd(mask, ShiftLeftOne(i)) = 0

\* this._swapchainBufferIndices >= 0
DepthIsOffScreenStrict(mask) == mask > 0
DepthIsOffScreen(mask) == mask >= 0

\* The colour loop of initialize from slot i on.  st holds the textures of
\* the device, the colour-texture list, the two flags and the log so far.
RECURSIVE InitColorLoop(_, _, _, _, _, _)
InitColorLoop(i, n, mask, w, h, st) ==
    IF i >= n THEN st
    ELSE IF ColorIsOffScreen(mask, i)
         THEN InitColorLoop(i + 1, n, mask, w, h,
                  [st EXCEPT !.textures = Append(@, NewTexture("color", w, h)),
                             !.colors = Append(@, Len(st.textures) + 1),
                             !.off = 1,
                             !.log = Append(@, LogEntry("createTexture",
                                                        Len(st.textures) + 1, w, h))])
         ELSE InitColorLoop(i + 1, n, mask, w, h,
                  [st EXCEPT !.colors = Append(@, Null), !.on = 1])

\* The depth-stencil step of initialize.
InitDepth(present, mask, w, h, st) ==
    IF ~present THEN st
    ELSE IF DepthIsOffScreen(mask)
         THEN [st EXCEPT !.textures = Append(@, NewTexture("depth", w, h)),
                         !.depth = Len(st.textures) + 1,
                         !.off = 1,
                         !.log = Append(@, LogEntry("createTexture",
                                                    Len(st.textures) + 1, w, h))]
         ELSE [st EXCEPT !.on = 1]

initialize(info) ==
    LET handle == Len(windowPool) + 1
        mask == IF info.mask.defined THEN info.mask.val ELSE _swapchainBufferIndices
        pass == Len(windowPool) + 1
        st0 == [textures |-> textures, colors |-> _colorTextures,
                depth |-> _depthStencilTexture,
                on |-> FreshWindowRecord.HAS_ON_SCREEN_ATTACHMENTS,
                off |-> FreshWindowRecord.HAS_OFF_SCREEN_ATTACHMENTS,
                log |-> <<LogEntry("createRenderPass", pass, 0, 0)>>]
        st1 == InitColorLoop(0, info.colors, mask, info.width, info.height, st0)
        st2 == InitDepth(info.depth, mask, info.width, info.height, st1)
        hFBO == Len(framebuffers) + 1
    IN  /\ _poolHandle' = handle
        /\ _swapchainBufferIndices' = mask
        /\ _width' = info.width
        /\ _height' = info.height
        /\ _nativeWidth' = info.width
        /\ _nativeHeight' = info.height
        /\ _renderPass' = pass
        /\ _colorTextures' = st2.colors
        /\ _depthStencilTexture' = st2.depth
        /\ textures' = st2.textures
        /\ framebuffers' = Append(framebuffers,
               [renderPass |-> pass, colorTextures |-> st2.colors,
                depthStencilTexture |-> st2.depth, alive |-> TRUE])
        /\ windowPool' = Append(windowPool,
               [FreshWindowRecord EXCEPT
                   !.FRAMEBUFFER = hFBO,
                   !.HAS_ON_SCREEN_ATTACHMENTS = st2.on,
                   !.HAS_OFF_SCREEN_ATTACHMENTS = st2.off])
        /\ gfxLog' = Append(st2.log, LogEntry("allocFramebuffer", hFBO, 0, 0))
        /\ winCall' = [op |-> "initialize", width |-> info.width,
                       height |-> info.height, info |-> info]

\* The getters of lines 57-67.
hasOnScreenAttachments == windowPool[_poolHandle].HAS_ON_SCREEN_ATTACHMENTS = 1
hasOffScreenAttachments == windowPool[_poolHandle].HAS_OFF_SCREEN_ATTACHMENTS = 1

\* texture.destroy() on every present entry of the colour-texture list.
DestroyColorLoopNone(i, list, st) == st

RECURSIVE DestroyColorLoop(_, _, _)
DestroyColorLoop(i, list, st) ==
    IF i > Len(list) THEN st
    ELSE IF list[i] # Null
         THEN DestroyColorLoop(i + 1, list,
                  [st EXCEPT !.textures[list[i]].alive = FALSE,
                             !.log = Append(@, LogEntry("destroyTexture", list[i], 0, 0))])
         ELSE DestroyColorLoop(i + 1, list, st)

\* this._colorTextures.length = 0
ColorTexturesKept == _colorTextures
ColorTexturesCleared == << >>

destroy ==
    LET st0 == [textures |-> textures, log |-> << >>]
        st1 == IF _depthStencilTexture # Null
               THEN [st0 EXCEPT !.textures[_depthStencilTexture].alive = FALSE,
                                !.log = Append(@, LogEntry("destroyTexture",
                                                           _depthStencilTexture, 0, 0))]
               ELSE st0
        st2 == DestroyColorLoop(1, _colorTextures, st1)
        fb == IF _poolHandle # NULL_HANDLE
              THEN windowPool[_poolHandle].FRAMEBUFFER ELSE Null
    IN  /\ _depthStencilTexture' = Null
        /\ _colorTextures' = ColorTexturesCleared
        /\ textures' = st2.textures
        /\ IF _poolHandle # NULL_HANDLE
           THEN /\ framebuffers' = [framebuffers EXCEPT ![fb].alive = FALSE]
                /\ gfxLog' = Append(st2.log, LogEntry("destroyFramebuffer", fb, 0, 0))
           ELSE /\ UNCHANGED framebuffers
                /\ gfxLog' = st2.log
        /\ _poolHandle' = NULL_HANDLE
        /\ winCall' = [op |-> "destroy", width |-> 1, height |-> 1, info |-> NoInfo]
        /\ UNCHANGED <<sizeVars, _renderPass, _swapchainBufferIndices, windowPool>>

\* width > this._nativeWidth || height > this._nativeHeight
ExceedsNativeBoth(width, height) == width > _nativeWidth /\ height > _nativeHeight
ExceedsNativeOrEqual(width, height) == width >= _nativeWidth \/ height >= _nativeHeight
ExceedsNative(width, height) == width > _nativeWidth \/ height > _nativeHeight

\* needRebuild && framebuffer
MustRebuildAlways(needRebuild, fb) == fb # Null
MustRebuild(needRebuild, fb) == needRebuild /\ fb # Null

\* colorTex.resize(width, height) on every present entry of the list.
ResizeColorLoopNone(i, list, width, height, st) == st

RECURSIVE ResizeColorLoop(_, _, _, _, _)
ResizeColorLoop(i, list, width, height, st) ==
    IF i > Len(list) THEN st
    ELSE IF list[i] # Null
         THEN ResizeColorLoop(i + 1, list, width, height,
                  [st EXCEPT !.textures[list[i]].width = width,
                             !.textures[list[i]].height = height,
                             !.needRebuild = TRUE,
                             !.log = Append(@, LogEntry("resizeTexture", list[i],
                                                        width, height))])
         ELSE ResizeColorLoop(i + 1, list, width, height, st)

resize(width, height) ==
    /\ _width' = width
    /\ _height' = height
    /\ winCall' = [op |-> "resize", width |-> width, height |-> height, info |-> NoInfo]
    /\ IF ExceedsNative(width, height)
       THEN LET st0 == [textures |-> textures, needRebuild |-> FALSE, log |-> << >>]
                st1 == IF _depthStencilTexture # Null
                       THEN [st0 EXCEPT
                                !.textures[_depthStencilTexture].width = width,
                                !.textures[_depthStencilTexture].height = height,
                                !.needRebuild = TRUE,
                                !.log = Append(@, LogEntry("resizeTexture",
                                            _depthStencilTexture, width, height))]
                       ELSE st0
                st2 == ResizeColorLoop(1, _colorTextures, width, height, st1)
                fb == windowPool[_poolHandle].FRAMEBUFFER
            IN  /\ _nativeWidth' = width
                /\ _nativeHeight' = height
                /\ textures' = st2.textures
                /\ IF MustRebuild(st2.needRebuild, fb)
                   THEN /\ framebuffers' = [framebuffers EXCEPT ![fb] =
                               [renderPass |-> _renderPass,
                                colorTextures |-> _colorTextures,
                                depthStencilTexture |-> _depthStencilTexture,
                                alive |-> TRUE]]
                        /\ gfxLog' = st2.log \o
                               <<LogEntry("destroyFramebuffer", fb, 0, 0),
                                 LogEntry("initializeFramebuffer", fb, 0, 0)>>
                   ELSE /\ UNCHANGED framebuffers
                        /\ gfxLog' = st2.log
       ELSE /\ gfxLog' = << >>
            /\ UNCHANGED <<_nativeWidth, _nativeHeight, textures, framebuffers>>
    /\ UNCHANGED <<ownedVars, windowPool>>

----------------------------------------------------------------------------
(* RenderPipeline, src/unnamed/part_001 lines 290-393: the inline          *)
(* accessors of the class.                                                 *)

\* gfx::Device as far as the pipeline reads it: getCapabilities().
Devices == [supportQuery : BOOLEAN]

\* The macro names and the values of a MacroRecord entry (int32_t, bool
\* or string) that setValue is called with.
MacroNames == {"CC_USE_HDR", "CC_PIPELINE_TYPE"}
MacroValues ==
    {[t |-> "int32", v |-> 0], [t |-> "int32", v |-> 1],
     [t |-> "bool", v |-> 1], [t |-> "string", v |-> 0]}
BoolValue(b) == [t |-> "bool", v |-> IF b THEN 1 ELSE 0]

PipeCall(op, name, val) == [op |-> op, name |-> name, val |-> val]

\* The member initializers; the constructor (RenderPipeline.cpp) binds
\* _device to the device instance before any accessor can be called.
PipelineInit ==
    /\ _device \in Devices
    /\ _macros = << >>
    /\ _clusterEnabled = FALSE
    /\ _bloomEnabled = FALSE
    /\ _occlusionQueryEnabled = FALSE
    /\ lastOcclusionArg = FALSE
    /\ pipeCall = PipeCall("none", "", BoolValue(FALSE))
    /\ pipeRet = FALSE

\* setValue(name, value), the three overloads: _macros[name] = value
setValue(name, value) ==
    /\ _macros' = [n \in (DOMAIN _macros) \cup {name} |->
                       IF n = name THEN value ELSE _macros[n]]
    /\ pipeCall' = PipeCall("setValue", name, value)
    /\ pipeRet' = FALSE
    /\ UNCHANGED <<_device, _clusterEnabled, _bloomEnabled,
                   _occlusionQueryEnabled, lastOcclusionArg>>

\* _occlusionQueryEnabled && _device->getCapabilities().supportQuery
OcclusionQueryEnabledFlagOnly == _occlusionQueryEnabled
OcclusionQueryEnabled == _occlusionQueryEnabled /\ _device.supportQuery

isOcclusionQueryEnabled ==
    /\ pipeRet' = OcclusionQueryEnabled
    /\ pipeCall' = PipeCall("isOcclusionQueryEnabled", "", BoolValue(FALSE))
    /\ UNCHANGED <<_device, _macros, _clusterEnabled, _bloomEnabled,
                   _occlusionQueryEnabled, lastOcclusionArg>>

setOcclusionQueryEnabled(enable) ==
    /\ _occlusionQueryEnabled' = enable
    /\ lastOcclusionArg' = enable
    /\ pipeCall' = PipeCall("setOcclusionQueryEnabled", "", BoolValue(enable))
    /\ pipeRet' = FALSE
    /\ UNCHANGED <<_device, _macros, _clusterEnabled, _bloomEnabled>>

isClusterEnabled ==
    /\ pipeRet' = _clusterEnabled
    /\ pipeCall' = PipeCall("isClusterEnabled", "", BoolValue(FALSE))
    /\ UNCHANGED <<_device, _macros, _clusterEnabled, _bloomEnabled,
                   _occlusionQueryEnabled, lastOcclusionArg>>

setClusterEnabled(enable) ==
    /\ _clusterEnabled' = enable
    /\ pipeCall' = PipeCall("setClusterEnabled", "", BoolValue(enable))
    /\ pipeRet' = FALSE
    /\ UNCHANGED <<_device, _macros, _bloomEnabled,
                   _occlusionQueryEnabled, lastOcclusionArg>>

isBloomEnabled ==
    /\ pipeRet' = _bloomEnabled
    /\ pipeCall' = PipeCall("isBloomEnabled", "", BoolValue(FALSE))
    /\ UNCHANGED <<_device, _macros, _clusterEnabled, _bloomEnabled,
                   _occlusionQueryEnabled, lastOcclusionArg>>

setBloomEnabled(enable) ==
    /\ _bloomEnabled' = enable
    /\ pipeCall' = PipeCall("setBloomEnabled", "", BoolValue(enable))
    /\ pipeRet' = FALSE
    /\ UNCHANGED <<_device, _macros, _clusterEnabled,
                   _occlusionQueryEnabled, lastOcclusionArg>>

----------------------------------------------------------------------------
(* The conversion layer, jsb_conversions.cpp.                              *)
(*                                                                         *)
(* A scripting value (se::Value) is a record of one shape for every kind:  *)
(* the kind, the number (a boolean is 0 or 1), the text, and for an object *)
(* the own keys in the order getAllKeys returns them with the values in    *)
(* the same order (an array has the elements in items and no keys).        *)
(* Numbers are the integers among the doubles, and the doubles between an  *)
(* integer and the next one away from zero: num is the integer part and    *)
(* str the fraction (".5"), empty for an integer.                          *)

SeValue(type, num, str, keys, items) ==
    [type |-> type, num |-> num, str |-> str, keys |-> keys, items |-> items]

SeUndefined == SeValue("Undefined", 0, "", << >>, << >>)
SeNull == SeValue("Null", 0, "", << >>, << >>)
SeNumber(n) == SeValue("Number", n, "", << >>, << >>)
SeFraction(n, fraction) == SeValue("Number", n, fraction, << >>, << >>)
SeBoolean(b) == SeValue("Boolean", IF b THEN 1 ELSE 0, "", << >>, << >>)
SeString(t) == SeValue("String", 0, t, << >>, << >>)
SeArray(elements) == SeValue("Array", 0, "", << >>, elements)
SeObject(keys, values) == SeValue("Object", 0, "", keys, values)

isNumber(v) == v.type = "Number"
isString(v) == v.type = "String"
isBoolean(v) == v.type = "Boolean"
isNullOrUndefined(v) == v.type \in {"Null", "Undefined"}
isObject(v) == v.type \in {"Object", "Array"}
isArray(v) == v.type = "Array"

\* se::Object::getProperty(name, &value): false when the object has no
\* such property, and the value is left as it was constructed, undefined.
getProperty(obj, name) ==
    IF \E i \in 1 .. Len(obj.keys) : obj.keys[i] = name
    THEN [ok |-> TRUE,
          value |-> obj.items[CHOOSE i \in 1 .. Len(obj.keys) :
                                  obj.keys[i] = name]]
    ELSE [ok |-> FALSE, value |-> SeUndefined]

\* float has a 24-bit significand: a number below 2^24 in magnitude is kept,
\* a larger one is rounded to the nearest multiple of the quantum of its
\* binade, a tie to the even multiple.
FloatExact == 16777216
\* The least positive integer that no float holds.
BigNumber == 16777217
Abs(n) == IF n < 0 THEN 0 - n ELSE n
Quantum(a) ==
    CHOOSE q \in {2, 4, 8, 16, 32, 64, 128} :
        /\ a \div q >= FloatExact \div 2
        /\ a \div q < FloatExact
RoundToQuantum(a, q) ==
    LET r == a % q
        down == a - r
    IN  IF 2 * r < q THEN down
        ELSE IF 2 * r > q THEN down + q
        ELSE IF (down \div q) % 2 = 0 THEN down ELSE down + q
FloatOf(n) ==
    LET a == Abs(n)
    IN  IF a < FloatExact THEN n
        ELSE IF n < 0 THEN 0 - RoundToQuantum(a, Quantum(a))
        ELSE RoundToQuantum(a, Quantum(a))

\* se::Value::toFloat() of a number
toFloat(v) == FloatOf(v.num)

\* A native tagged value (cocos2d::Value) has the shape of a scripting
\* value: a list has its elements in items, a map its keys and values in
\* insertion order.
CcValue(type, num, str, keys, items) ==
    [type |-> type, num |-> num, str |-> str, keys |-> keys, items |-> items]

\* cocos2d::Value::Null, and what a default-constructed Value is
CcNone == CcValue("NONE", 0, "", << >>, << >>)

\* A call: the conversion, its argument, and what the output parameter held
\* before the call where the conversion adds to it.
ConvCallInto(op, arg, into) == [op |-> op, arg |-> arg, into |-> into]
ConvCall(op, arg) == ConvCallInto(op, arg, CcNone)
NoConvCall == ConvCall("none", SeUndefined)

\* The conversions from a native value to a scripting value.
ToScriptOps == {"Mat4_to_seval", "Color4F_to_seval"}
NoSrc == << >>

\* The scripting value at hand: the one drawn at the start, or the one the
\* last native-to-script conversion produced.
Hand == IF convCall.op \in ToScriptOps THEN convOut ELSE convCall.arg

\* The value at hand has not been converted to a native value yet.  (The
\* conversions keep nothing between calls: a second call on the same value
\* repeats the first.)
Unconverted == convCall.op \in {"none"} \cup ToScriptOps

\* No conversion has been called on the value v yet.
ConvStart(v) ==
    /\ convCall = ConvCall("none", v)
    /\ convSrc = NoSrc
    /\ convExit = "return"
    /\ convRet = FALSE
    /\ convOut = SeUndefined

ConvInit == ConvStart(SeUndefined)

\* The conversion op, called on the value at hand, ran to its return
\* statement.
Returns(op, result) ==
    /\ Unconverted
    /\ convCall' = ConvCall(op, Hand)
    /\ convSrc' = convSrc
    /\ convExit' = "return"
    /\ convRet' = result.ret
    /\ convOut' = result.out

\* The native-to-script conversion op, called on the native value src with
\* no scripting value at hand, ran to its return statement.
ReturnsScript(op, src, result) ==
    /\ convCall = NoConvCall
    /\ convCall' = ConvCall(op, SeUndefined)
    /\ convSrc' = src
    /\ convExit' = "return"
    /\ convRet' = result.ret
    /\ convOut' = result.out

\* ok = obj->getProperty(name, &x);  ... ok && x.isNumber()
NumberFieldPresentOnly(obj, name) == getProperty(obj, name).ok
NumberField(obj, name) ==
    getProperty(obj, name).ok /\ isNumber(getProperty(obj, name).value)

\* x.toFloat() of the property read
FloatField(obj, name) == toFloat(getProperty(obj, name).value)

Vec2_ZERO == [x |-> 0, y |-> 0]
Vec3_ZERO == [x |-> 0, y |-> 0, z |-> 0]
Vec4_ZERO == [x |-> 0, y |-> 0, z |-> 0, w |-> 0]

Vec2Result(v) ==
    IF ~NumberField(v, "x") THEN [ret |-> FALSE, out |-> Vec2_ZERO]
    ELSE IF ~NumberField(v, "y") THEN [ret |-> FALSE, out |-> Vec2_ZERO]
    ELSE [ret |-> TRUE,
          out |-> [x |-> FloatField(v, "x"), y |-> FloatField(v, "y")]]

\* assert(v.isObject() && pt != nullptr); v is a plain object with no
\* properties but those in names.
ObjectOver(v, names) ==
    /\ isObject(v) /\ ~isArray(v)
    /\ \A i \in 1 .. Len(v.keys) : v.keys[i] \in names

seval_to_Vec2 ==
    /\ ObjectOver(Hand, {"x", "y", "z", "w"})
    /\ Returns("seval_to_Vec2", Vec2Result(Hand))

Vec3Result(v) ==
    IF ~NumberField(v, "x") THEN [ret |-> FALSE, out |-> Vec3_ZERO]
    ELSE IF ~NumberField(v, "y") THEN [ret |-> FALSE, out |-> Vec3_ZERO]
    ELSE IF ~NumberField(v, "z") THEN [ret |-> FALSE, out |-> Vec3_ZERO]
    ELSE [ret |-> TRUE,
          out |-> [x |-> FloatField(v, "x"), y |-> FloatField(v, "y"),
                   z |-> FloatField(v, "z")]]

seval_to_Vec3 ==
    /\ ObjectOver(Hand, {"x", "y", "z", "w"})
    /\ Returns("seval_to_Vec3", Vec3Result(Hand))

Vec4Result(v) ==
    IF ~NumberField(v, "x") THEN [ret |-> FALSE, out |-> Vec4_ZERO]
    ELSE IF ~NumberField(v, "y") THEN [ret |-> FALSE, out |-> Vec4_ZERO]
    ELSE IF ~NumberField(v, "z") THEN [ret |-> FALSE, out |-> Vec4_ZERO]
    ELSE IF ~NumberField(v, "w") THEN [ret |-> FALSE, out |-> Vec4_ZERO]
    ELSE [ret |-> TRUE,
          out |-> [x |-> FloatField(v, "x"), y |-> FloatField(v, "y"),
                   z |-> FloatField(v, "z"), w |-> FloatField(v, "w")]]

seval_to_Vec4 ==
    /\ ObjectOver(Hand, {"x", "y", "z", "w"})
    /\ Returns("seval_to_Vec4", Vec4Result(Hand))

\* cocos2d::Mat4: m[0..15] is the sequence m[1..16] here.
Mat4_IDENTITY == <<1, 0, 0, 0, 0, 1, 0, 0, 0, 0, 1, 0, 0, 0, 0, 1>>

\* obj->getArrayLength(&len) and obj->getArrayElement(i, &tmp) succeed on
\* an array.
getArrayLength(obj) == Len(obj.items)
getArrayElement(obj, i) == obj.items[i + 1]

\* The loop of seval_to_Mat4 from index i on, mat->m so far in mat.
RECURSIVE Mat4Loop(_, _, _)
Mat4Loop(i, obj, mat) ==
    IF i >= getArrayLength(obj) THEN [ret |-> TRUE, out |-> mat]
    ELSE IF isNumber(getArrayElement(obj, i))
    THEN Mat4Loop(i + 1, obj,
                  [mat EXCEPT ![i + 1] = toFloat(getArrayElement(obj, i))])
    ELSE [ret |-> FALSE, out |-> Mat4_IDENTITY]

Mat4Result(v, mat) ==
    IF ~isArray(v) THEN [ret |-> FALSE, out |-> Mat4_IDENTITY]
    ELSE IF getArrayLength(v) # 16 THEN [ret |-> FALSE, out |-> Mat4_IDENTITY]
    ELSE Mat4Loop(0, v, mat)

\* assert(v.isObject() && mat != nullptr); *mat is any matrix before.
seval_to_Mat4(mat) ==
    /\ isObject(Hand) /\ Hand.keys = << >>
    /\ Returns("seval_to_Mat4", Mat4Result(Hand, mat))

\* se::Value(v.m[i]), the element put at index i
MatElementTransposed(v, i) == SeNumber(v[(i % 4) * 4 + (i \div 4) + 1])
MatElement(v, i) == SeNumber(v[i + 1])

Mat4ToSevalResult(v) ==
    [ret |-> TRUE, out |-> SeArray([i \in 1 .. 16 |-> MatElement(v, i - 1)])]

Mat4_to_seval(v) == ReturnsScript("Mat4_to_seval", v, Mat4ToSevalResult(v))

\* The matrices converted: the identity, one with sixteen different
\* values, and that one with a zero, a negative or a large float in one
\* place.
Mat4_Base == <<1, 2, 3, 4, 5, 6, 7, 8, 9, 10, 11, 12, 13, 14, 15, 16>>
BigFloat == 16777218
Matrices ==
    {Mat4_IDENTITY, Mat4_Base}
        \cup {[Mat4_Base EXCEPT ![i] = b] : i \in 1 .. 16, b \in {0, -1, BigFloat}}

\* The arrays converted to a matrix: sixteen numbers with any one element
\* replaced by a non-number or by a number that is no float, and arrays of
\* other lengths.
ElementProbes ==
    {SeString("a"), SeUndefined, SeNull, SeBoolean(TRUE), SeNumber(BigNumber)}
NumberArray(n) == SeArray([i \in 1 .. n |-> SeNumber(i)])
MatArrays ==
    {SeArray([NumberArray(16).items EXCEPT ![i] = e]) :
         i \in 1 .. 16, e \in ElementProbes}
        \cup {NumberArray(n) : n \in {0, 15, 16, 17}}

\* The other object conversions of the catalogue.  A check fails in the
\* same way wherever it stands: the fallback is assigned and false returned.

\* se::Value::toUint16(), toUint32(), toInt32(), toNumber() of a number in
\* the range of the target type; (GLubyte) keeps the low 8 bits.
toUint16(v) == v.num % 65536
toUint32(v) == v.num
toInt32(v) == v.num
toNumber(v) == v.num
GLubyte(n) == n % 256

\* What reading a number out of a value that holds none may yield.
Unspecified == {0, 7}

Prop(obj, name) == getProperty(obj, name).value

\* ok && tmp.isString()
StringField(obj, name) ==
    getProperty(obj, name).ok /\ isString(getProperty(obj, name).value)

\* ok alone
PresentField(obj, name) == getProperty(obj, name).ok

Failed(fallback) == [ret |-> FALSE, out |-> fallback]
Converted(out) == [ret |-> TRUE, out |-> out]

Size_ZERO == [width |-> 0, height |-> 0]

SizeResult(v) ==
    IF ~NumberField(v, "width") \/ ~NumberField(v, "height")
    THEN Failed(Size_ZERO)
    ELSE Converted([width |-> FloatField(v, "width"),
                    height |-> FloatField(v, "height")])

seval_to_Size ==
    /\ ObjectOver(Hand, {"x", "y", "width", "height"})
    /\ Returns("seval_to_Size", SizeResult(Hand))

Rect_ZERO == [x |-> 0, y |-> 0, width |-> 0, height |-> 0]

RectResult(v) ==
    IF \/ ~NumberField(v, "x") \/ ~NumberField(v, "y")
       \/ ~NumberField(v, "width") \/ ~NumberField(v, "height")
    THEN Failed(Rect_ZERO)
    ELSE Converted([x |-> FloatField(v, "x"), y |-> FloatField(v, "y"),
                    width |-> FloatField(v, "width"),
                    height |-> FloatField(v, "height")])

seval_to_Rect ==
    /\ ObjectOver(Hand, {"x", "y", "width", "height"})
    /\ Returns("seval_to_Rect", RectResult(Hand))

Color3B_BLACK == [r |-> 0, g |-> 0, b |-> 0]

ByteField(obj, name) == GLubyte(toUint16(Prop(obj, name)))

Color3BResult(v) ==
    IF ~NumberField(v, "r") \/ ~NumberField(v, "g") \/ ~NumberField(v, "b")
    THEN Failed(Color3B_BLACK)
    ELSE Converted([r |-> ByteField(v, "r"), g |-> ByteField(v, "g"),
                    b |-> ByteField(v, "b")])

seval_to_Color3B ==
    /\ ObjectOver(Hand, {"r", "g", "b", "a"})
    /\ Returns("seval_to_Color3B", Color3BResult(Hand))

Color4B_BLACK == [r |-> 0, g |-> 0, b |-> 0, a |-> 255]

\* ok = obj->getProperty("a", &a); ... ok && b.isNumber()
AlphaField(obj) == getProperty(obj, "a").ok /\ isNumber(Prop(obj, "b"))

\* junk is what a.toUint16() yields when a holds no number.
Color4BResult(v, junk) ==
    IF \/ ~NumberField(v, "r") \/ ~NumberField(v, "g")
       \/ ~NumberField(v, "b") \/ ~AlphaField(v)
    THEN Failed(Color4B_BLACK)
    ELSE Converted([r |-> ByteField(v, "r"), g |-> ByteField(v, "g"),
                    b |-> ByteField(v, "b"),
                    a |-> IF isNumber(Prop(v, "a")) THEN ByteField(v, "a")
                          ELSE GLubyte(junk)])

seval_to_Color4B(junk) ==
    /\ ObjectOver(Hand, {"r", "g", "b", "a"})
    /\ Returns("seval_to_Color4B", Color4BResult(Hand, junk))

\* A channel of Color4F is a quotient of two floats, kept as the pair.
Quotient(n, d) == [num |-> n, den |-> d]
Color4F_BLACK ==
    [r |-> Quotient(0, 1), g |-> Quotient(0, 1), b |-> Quotient(0, 1),
     a |-> Quotient(1, 1)]

\* r.toFloat() / 255.0f
UnitField(obj, name) == Quotient(FloatField(obj, name), 255)

Color4FResult(v, junk) ==
    IF \/ ~NumberField(v, "r") \/ ~NumberField(v, "g")
       \/ ~NumberField(v, "b") \/ ~AlphaField(v)
    THEN Failed(Color4F_BLACK)
    ELSE Converted([r |-> UnitField(v, "r"), g |-> UnitField(v, "g"),
                    b |-> UnitField(v, "b"),
                    a |-> IF isNumber(Prop(v, "a")) THEN UnitField(v, "a")
                          ELSE Quotient(junk, 255)])

seval_to_Color4F(junk) ==
    /\ ObjectOver(Hand, {"r", "g", "b", "a"})
    /\ Returns("seval_to_Color4F", Color4FResult(Hand, junk))

\* cocos2d::Color4F with the four channels whole floats
Color4F(r, g, b, a) ==
    [r |-> Quotient(r, 1), g |-> Quotient(g, 1), b |-> Quotient(b, 1),
     a |-> Quotient(a, 1)]

\* se::Value(v.r): the float of a channel as a scripting number, unscaled
ChannelValue(channel) == SeNumber(channel.num)

Color4FToSevalResult(v) ==
    [ret |-> TRUE,
     out |-> SeObject(<<"r", "g", "b", "a">>,
                      <<ChannelValue(v.r), ChannelValue(v.g),
                        ChannelValue(v.b), ChannelValue(v.a)>>)]

Color4F_to_seval(v) ==
    ReturnsScript("Color4F_to_seval", v, Color4FToSevalResult(v))

\* The colours converted: black, white, transparent black, and colours
\* with channels in the 0..255 range.
Colors4F ==
    {Color4F_BLACK, Color4F(1, 1, 1, 1), Color4F(0, 0, 0, 0),
     Color4F(255, 0, 0, 255), Color4F(0, 1, 0, 1), Color4F(0, 0, 0, 255)}

\* cocos2d::BlendFunc::DISABLE is {GL_ONE, GL_ZERO}
BlendFunc_DISABLE == [src |-> 1, dst |-> 0]

\* value.toUint32() with no test of the kind of value
Uint32OrJunk(obj, name, junk) ==
    IF isNumber(Prop(obj, name)) THEN toUint32(Prop(obj, name)) ELSE junk

BlendFuncResult(v, junk) ==
    IF ~PresentField(v, "src") \/ ~PresentField(v, "dst")
    THEN Failed(BlendFunc_DISABLE)
    ELSE Converted([src |-> Uint32OrJunk(v, "src", junk),
                    dst |-> Uint32OrJunk(v, "dst", junk)])

seval_to_blendfunc(junk) ==
    /\ ObjectOver(Hand, {"src", "dst"})
    /\ Returns("seval_to_blendfunc", BlendFuncResult(Hand, junk))

Acceleration_ZERO == [x |-> 0, y |-> 0, z |-> 0, timestamp |-> 0]

AccelerationResult(v) ==
    IF \/ ~NumberField(v, "x") \/ ~NumberField(v, "y")
       \/ ~NumberField(v, "z") \/ ~NumberField(v, "timestamp")
    THEN Failed(Acceleration_ZERO)
    ELSE Converted([x |-> toNumber(Prop(v, "x")), y |-> toNumber(Prop(v, "y")),
                    z |-> toNumber(Prop(v, "z")),
                    timestamp |-> toNumber(Prop(v, "timestamp"))])

seval_to_Acceleration ==
    /\ ObjectOver(Hand, {"x", "y", "z", "timestamp"})
    /\ Returns("seval_to_Acceleration", AccelerationResult(Hand))

Quaternion_ZERO == [x |-> 0, y |-> 0, z |-> 0, w |-> 0]

QuaternionResult(v) ==
    IF \/ ~NumberField(v, "x") \/ ~NumberField(v, "y")
       \/ ~NumberField(v, "z") \/ ~NumberField(v, "w")
    THEN Failed(Quaternion_ZERO)
    ELSE Converted([x |-> FloatField(v, "x"), y |-> FloatField(v, "y"),
                    z |-> FloatField(v, "z"), w |-> FloatField(v, "w")])

seval_to_Quaternion ==
    /\ ObjectOver(Hand, {"x", "y", "z", "w"})
    /\ Returns("seval_to_Quaternion", QuaternionResult(Hand))

AffineTransform_ZERO ==
    [a |-> 0, b |-> 0, c |-> 0, d |-> 0, tx |-> 0, ty |-> 0]

AffineTransformResult(v) ==
    IF \/ ~NumberField(v, "a") \/ ~NumberField(v, "b")
       \/ ~NumberField(v, "c") \/ ~NumberField(v, "d")
       \/ ~NumberField(v, "tx") \/ ~NumberField(v, "ty")
    THEN Failed(AffineTransform_ZERO)
    ELSE Converted([a |-> FloatField(v, "a"), b |-> FloatField(v, "b"),
                    c |-> FloatField(v, "c"), d |-> FloatField(v, "d"),
                    tx |-> FloatField(v, "tx"), ty |-> FloatField(v, "ty")])

seval_to_AffineTransform ==
    /\ ObjectOver(Hand, {"a", "b", "c", "d", "tx", "ty"})
    /\ Returns("seval_to_AffineTransform", AffineTransformResult(Hand))

Viewport_ZERO == [left |-> 0, bottom |-> 0, width |-> 0, height |-> 0]

ViewportResult(v) ==
    IF \/ ~NumberField(v, "left") \/ ~NumberField(v, "bottom")
       \/ ~NumberField(v, "width") \/ ~NumberField(v, "height")
    THEN Failed(Viewport_ZERO)
    ELSE Converted([left |-> FloatField(v, "left"),
                    bottom |-> FloatField(v, "bottom"),
                    width |-> FloatField(v, "width"),
                    height |-> FloatField(v, "height")])

seval_to_Viewport ==
    /\ ObjectOver(Hand, {"left", "bottom", "width", "height"})
    /\ Returns("seval_to_Viewport", ViewportResult(Hand))

DownloaderHints_ZERO ==
    [countOfMaxProcessingTasks |-> 0, timeoutInSeconds |-> 0,
     tempFileNameSuffix |-> ""]

DownloaderHintsResult(v) ==
    IF \/ ~NumberField(v, "countOfMaxProcessingTasks")
       \/ ~NumberField(v, "timeoutInSeconds")
       \/ ~StringField(v, "tempFileNameSuffix")
    THEN Failed(DownloaderHints_ZERO)
    ELSE Converted(
             [countOfMaxProcessingTasks |->
                  toUint32(Prop(v, "countOfMaxProcessingTasks")),
              timeoutInSeconds |-> toUint32(Prop(v, "timeoutInSeconds")),
              tempFileNameSuffix |-> Prop(v, "tempFileNameSuffix").str])

seval_to_DownloaderHints ==
    /\ ObjectOver(Hand, {"countOfMaxProcessingTasks", "timeoutInSeconds",
                         "tempFileNameSuffix"})
    /\ Returns("seval_to_DownloaderHints", DownloaderHintsResult(Hand))

ResourceData_ZERO == [type |-> 0, file |-> "", plist |-> ""]

ResourceDataResult(v) ==
    IF \/ ~NumberField(v, "type") \/ ~StringField(v, "name")
       \/ ~StringField(v, "plist")
    THEN Failed(ResourceData_ZERO)
    ELSE Converted([type |-> toInt32(Prop(v, "type")),
                    file |-> Prop(v, "name").str,
                    plist |-> Prop(v, "plist").str])

seval_to_ResourceData ==
    /\ ObjectOver(Hand, {"type", "name", "plist"})
    /\ Returns("seval_to_ResourceData", ResourceDataResult(Hand))

\* The generic tagged value and its maps and lists.

CcBoolean(b) == CcValue("BOOLEAN", IF b THEN 1 ELSE 0, "", << >>, << >>)
CcDouble(n) == CcValue("DOUBLE", n, "", << >>, << >>)
CcString(t) == CcValue("STRING", 0, t, << >>, << >>)
CcVector(elements) == CcValue("VECTOR", 0, "", << >>, elements)
CcMap(keys, values) == CcValue("MAP", 0, "", keys, values)
CcIntKeyMap(keys, values) == CcValue("INT_KEY_MAP", 0, "", keys, values)

EmptyMap == CcMap(<< >>, << >>)
EmptyIntKeyMap == CcIntKeyMap(<< >>, << >>)
EmptyVector == CcVector(<< >>)

\* How a call ends: at a return statement, at a failed assertion (a build
\* with assertions), or in undefined behaviour (a build without).
Done(ret, out) == [exit |-> "return", ret |-> ret, out |-> out]
Aborted == [exit |-> "abort", ret |-> FALSE, out |-> CcNone]
UndefinedBehaviour == [exit |-> "undefined", ret |-> FALSE, out |-> CcNone]

HasKey(map, key) == \E i \in 1 .. Len(map.keys) : map.keys[i] = key

\* dict.emplace(key, ccvalue): a key already in the map keeps its value.
emplace(map, key, value) ==
    IF HasKey(map, key) THEN map
    ELSE [map EXCEPT !.keys = Append(@, key), !.items = Append(@, value)]

\* ret->push_back(ccvalue)
push_front(vector, value) == [vector EXCEPT !.items = <<value>> \o @]
push_back(vector, value) == [vector EXCEPT !.items = Append(@, value)]

INT_MAX == 2147483647

Digits == <<"0", "1", "2", "3", "4", "5", "6", "7", "8", "9">>
isdigit(c) == \E d \in 1 .. 10 : Digits[d] = c
DigitValue(c) == (CHOOSE d \in 1 .. 10 : Digits[d] = c) - 1
CharAt(str, i) == SubSeq(str, i, i)

\* isNumberString: no character of str is a non-digit.
isNumberString(str) == \A i \in 1 .. Len(str) : isdigit(CharAt(str, i))

\* atoi of a string of digits, from character i on; a value above INT_MAX
\* is undefined, junk is what the call yields then.
RECURSIVE atoiFrom(_, _, _, _)
atoiFrom(str, i, acc, junk) ==
    IF i > Len(str) THEN acc
    ELSE IF acc > (INT_MAX - DigitValue(CharAt(str, i))) \div 10 THEN junk
    ELSE atoiFrom(str, i + 1, acc * 10 + DigitValue(CharAt(str, i)), junk)
atoi(str, junk) == atoiFrom(str, 1, 0, junk)

RECURSIVE SevalToCcvalue(_, _, _)
RECURSIVE SevalToCcvaluemap(_, _, _)
RECURSIVE CcvaluemapLoop(_, _, _, _, _)
RECURSIVE SevalToCcvaluevector(_, _, _)
RECURSIVE CcvaluevectorLoop(_, _, _, _, _)

\* seval_to_ccvalue(v, ret): ret holds what it held before when v is of no
\* supported kind and assertions are off.
SevalToCcvalue(v, ret, debug) ==
    IF isObject(v)
    THEN IF ~isArray(v)
         THEN LET r == SevalToCcvaluemap(v, EmptyMap, debug)
              IN  IF r.exit # "return" THEN r
                  ELSE IF ~r.ret THEN Done(FALSE, CcNone)
                  ELSE Done(TRUE, r.out)
         ELSE LET r == SevalToCcvaluevector(v, EmptyVector, debug)
              IN  IF r.exit # "return" THEN r
                  ELSE IF ~r.ret THEN Done(FALSE, CcNone)
                  ELSE Done(TRUE, r.out)
    ELSE IF isString(v) THEN Done(TRUE, CcString(v.str))
    ELSE IF isNumber(v) THEN Done(TRUE, CcDouble(toNumber(v)))
    ELSE IF isBoolean(v) THEN Done(TRUE, CcBoolean(v.num = 1))
    ELSE IF debug THEN Aborted
    ELSE Done(TRUE, ret)

\* The loop of seval_to_ccvaluemap from key i on; ccvalue is the local the
\* values are converted into.
CcvaluemapLoop(i, obj, dict, ccvalue, debug) ==
    IF i > Len(obj.keys) THEN Done(TRUE, dict)
    ELSE LET r == SevalToCcvalue(obj.items[i], ccvalue, debug)
         IN  IF r.exit # "return" THEN r
             ELSE IF ~r.ret THEN Done(FALSE, EmptyMap)
             ELSE CcvaluemapLoop(i + 1, obj, emplace(dict, obj.keys[i], r.out),
                                 r.out, debug)

SevalToCcvaluemap(v, ret, debug) ==
    IF isNullOrUndefined(v) THEN Done(TRUE, EmptyMap)
    ELSE IF ~isObject(v)
    THEN IF debug THEN Aborted ELSE UndefinedBehaviour
    ELSE CcvaluemapLoop(1, v, ret, CcNone, debug)

\* The loop of seval_to_ccvaluevector from index i on.
CcvaluevectorLoop(i, obj, vector, ccvalue, debug) ==
    IF i >= getArrayLength(obj) THEN Done(TRUE, vector)
    ELSE LET r == SevalToCcvalue(getArrayElement(obj, i), ccvalue, debug)
         IN  IF r.exit # "return" THEN r
             ELSE IF ~r.ret THEN Done(FALSE, EmptyVector)
             ELSE CcvaluevectorLoop(i + 1, obj, push_back(vector, r.out),
                                    r.out, debug)

SevalToCcvaluevector(v, ret, debug) ==
    IF ~isArray(v) THEN Done(FALSE, EmptyVector)
    ELSE CcvaluevectorLoop(0, v, ret, CcNone, debug)

\* The loop of seval_to_ccvaluemapintkey from key i on.
RECURSIVE CcvaluemapintkeyLoop(_, _, _, _, _, _)
CcvaluemapintkeyLoop(i, obj, dict, ccvalue, debug, junk) ==
    IF i > Len(obj.keys) THEN Done(TRUE, dict)
    ELSE IF ~isNumberString(obj.keys[i])
    THEN CcvaluemapintkeyLoop(i + 1, obj, dict, ccvalue, debug, junk)
    ELSE LET r == SevalToCcvalue(obj.items[i], ccvalue, debug)
         IN  IF r.exit # "return" THEN r
             ELSE IF ~r.ret THEN Done(FALSE, EmptyIntKeyMap)
             ELSE CcvaluemapintkeyLoop(
                      i + 1, obj, emplace(dict, atoi(obj.keys[i], junk), r.out),
                      r.out, debug, junk)

SevalToCcvaluemapintkey(v, ret, debug, junk) ==
    IF isNullOrUndefined(v) THEN Done(TRUE, EmptyIntKeyMap)
    ELSE IF ~isObject(v)
    THEN IF debug THEN Aborted ELSE UndefinedBehaviour
    ELSE CcvaluemapintkeyLoop(1, v, ret, CcNone, debug, junk)

\* A conversion ended as result says; undefined behaviour ends in a crash
\* or returns either boolean with either output.
Finishes(op, into, result, anyOut) ==
    /\ Unconverted
    /\ convCall' = ConvCallInto(op, Hand, into)
    /\ convSrc' = convSrc
    /\ IF result.exit = "undefined"
       THEN \/ /\ convExit' = "abort"
               /\ convRet' = FALSE
               /\ convOut' = result.out
            \/ /\ convExit' = "return"
               /\ convRet' \in BOOLEAN
               /\ convOut' \in anyOut
       ELSE /\ convExit' = result.exit
            /\ convRet' = result.ret
            /\ convOut' = result.out

\* A scripting value that is no array: what the map conversions are given.
NoArray(v) == ~isArray(v)

\* A scripting value that is no number with a fraction.
Whole(v) == isNumber(v) => v.str = ""

seval_to_ccvalue(debug) ==
    /\ Whole(Hand)
    /\ Finishes("seval_to_ccvalue", CcNone,
                SevalToCcvalue(Hand, CcNone, debug), {CcNone})

seval_to_ccvaluemap(debug) ==
    /\ NoArray(Hand)
    /\ Finishes("seval_to_ccvaluemap", EmptyMap,
                SevalToCcvaluemap(Hand, EmptyMap, debug),
                {EmptyMap, CcMap(<<"k">>, <<CcDouble(7)>>)})

seval_to_ccvaluemapintkey(debug, junk) ==
    /\ NoArray(Hand)
    /\ Finishes("seval_to_ccvaluemapintkey", EmptyIntKeyMap,
                SevalToCcvaluemapintkey(Hand, EmptyIntKeyMap, debug, junk),
                {EmptyIntKeyMap, CcIntKeyMap(<<junk>>, <<CcDouble(7)>>)})

\* assert(v.isObject()); ret is the list the elements are added to.
seval_to_ccvaluevector(ret, debug) ==
    /\ isObject(Hand)
    /\ Finishes("seval_to_ccvaluevector", ret,
                SevalToCcvaluevector(Hand, ret, debug), {EmptyVector})

\* keyss << e.first: the decimal text of an int
RECURSIVE DecimalText(_)
DecimalText(n) ==
    IF n < 0 THEN "-" \o DecimalText(0 - n)
    ELSE IF n < 10 THEN Digits[n + 1]
    ELSE DecimalText(n \div 10) \o Digits[(n % 10) + 1]

\* obj->setProperty(key, value) on a plain object
setProperty(obj, key, value) ==
    IF HasKey(obj, key)
    THEN [obj EXCEPT !.items[CHOOSE i \in 1 .. Len(obj.keys) :
                                 obj.keys[i] = key] = value]
    ELSE [obj EXCEPT !.keys = Append(@, key), !.items = Append(@, value)]

RECURSIVE CcvalueToSeval(_)
RECURSIVE MapToSevalLoop(_, _, _)
RECURSIVE IntKeyMapToSevalLoop(_, _, _)
RECURSIVE VectorToSevalLoop(_, _, _)

\* if (key.empty()) continue;
SkipsKey(key) == key = ""

\* The loop of ccvaluemap_to_seval from entry i on.
MapToSevalLoop(i, map, obj) ==
    IF i > Len(map.keys) THEN Done(TRUE, obj)
    ELSE IF SkipsKey(map.keys[i]) THEN MapToSevalLoop(i + 1, map, obj)
    ELSE LET r == CcvalueToSeval(map.items[i])
         IN  IF ~r.ret THEN Done(FALSE, SeUndefined)
             ELSE MapToSevalLoop(i + 1, map,
                                 setProperty(obj, map.keys[i], r.out))

\* The loop of ccvaluemapintkey_to_seval from entry i on.
IntKeyMapToSevalLoop(i, map, obj) ==
    IF i > Len(map.keys) THEN Done(TRUE, obj)
    ELSE IF SkipsKey(DecimalText(map.keys[i]))
    THEN IntKeyMapToSevalLoop(i + 1, map, obj)
    ELSE LET r == CcvalueToSeval(map.items[i])
         IN  IF ~r.ret THEN Done(FALSE, SeUndefined)
             ELSE IntKeyMapToSevalLoop(
                      i + 1, map,
                      setProperty(obj, DecimalText(map.keys[i]), r.out))

\* The loop of ccvaluevector_to_seval from element i on.
VectorToSevalLoop(i, vector, elements) ==
    IF i > Len(vector.items) THEN Done(TRUE, SeArray(elements))
    ELSE LET r == CcvalueToSeval(vector.items[i])
         IN  IF ~r.ret THEN Done(FALSE, SeUndefined)
             ELSE VectorToSevalLoop(i + 1, vector, Append(elements, r.out))

CcvaluemapToSeval(v) == MapToSevalLoop(1, v, SeObject(<< >>, << >>))
CcvaluemapintkeyToSeval(v) ==
    IntKeyMapToSevalLoop(1, v, SeObject(<< >>, << >>))
CcvaluevectorToSeval(v) == VectorToSevalLoop(1, v, << >>)

\* ccvalue_to_seval: the switch on v.getType()
CcvalueToSeval(v) ==
    IF v.type = "BOOLEAN" THEN Done(TRUE, SeBoolean(v.num = 1))
    ELSE IF v.type \in {"FLOAT", "DOUBLE"} THEN Done(TRUE, SeNumber(v.num))
    ELSE IF v.type = "INTEGER" THEN Done(TRUE, SeNumber(v.num))
    ELSE IF v.type = "STRING" THEN Done(TRUE, SeString(v.str))
    ELSE IF v.type = "VECTOR" THEN CcvaluevectorToSeval(v)
    ELSE IF v.type = "MAP" THEN CcvaluemapToSeval(v)
    ELSE IF v.type = "INT_KEY_MAP" THEN CcvaluemapintkeyToSeval(v)
    ELSE Done(FALSE, SeUndefined)

\* ccvaluevector_to_seval, called on the list seval_to_ccvaluevector has
\* just filled.
ccvaluevector_to_seval ==
    /\ convCall.op = "seval_to_ccvaluevector"
    /\ convExit = "return" /\ convRet
    /\ convCall' = [convCall EXCEPT !.op = "ccvaluevector_to_seval"]
    /\ convSrc' = convOut
    /\ convExit' = "return"
    /\ convRet' = CcvaluevectorToSeval(convOut).ret
    /\ convOut' = CcvaluevectorToSeval(convOut).out

\* The conversions that are not implemented: assert(false) stops a build
\* with assertions; without them the function returns value and leaves the
\* output as it was.
Unimplemented(op, debug, value) ==
    Finishes(op, CcNone, IF debug THEN Aborted ELSE Done(value, convOut),
             {convOut})

\* The values the unimplemented conversions are called with.
StubProbes ==
    {SeUndefined, SeNull, SeNumber(1), SeString("x"), SeBoolean(TRUE),
     SeObject(<< >>, << >>)}

seval_to_TTFConfig(debug) ==
    Hand \in StubProbes /\ Unimplemented("seval_to_TTFConfig", debug, TRUE)
seval_to_b2Vec2(debug) ==
    Hand \in StubProbes /\ Unimplemented("seval_to_b2Vec2", debug, TRUE)
seval_to_b2AABB(debug) ==
    Hand \in StubProbes /\ Unimplemented("seval_to_b2AABB", debug, TRUE)

\* The native value v is not read.
b2Vec2_to_seval(debug) ==
    convCall = NoConvCall /\ Unimplemented("b2Vec2_to_seval", debug, FALSE)
b2Manifold_to_seval(debug) ==
    convCall = NoConvCall /\ Unimplemented("b2Manifold_to_seval", debug, FALSE)
b2AABB_to_seval(debug) ==
    convCall = NoConvCall /\ Unimplemented("b2AABB_to_seval", debug, FALSE)

\* seval_to_boolean: bool* ret is the record of the boolean. toInt32 of a
\* number drops its fraction.
Bool(b) == [bool |-> b]
toBoolean(v) == v.num # 0

BooleanResult(v) ==
    IF isBoolean(v) THEN Converted(Bool(toBoolean(v)))
    ELSE IF isNumber(v) THEN Converted(Bool(toInt32(v) # 0))
    ELSE Failed(Bool(FALSE))

seval_to_boolean == Returns("seval_to_boolean", BooleanResult(Hand))

\* The values converted to a boolean: both booleans, zero, whole numbers
\* of either sign, a number between 0 and 1, and values of other kinds.
BooleanProbes ==
    {SeBoolean(TRUE), SeBoolean(FALSE), SeNumber(0), SeNumber(1),
     SeNumber(-1), SeNumber(256), SeFraction(0, ".5"), SeFraction(1, ".5"),
     SeString(""), SeString("true"), SeNull, SeUndefined,
     SeObject(<< >>, << >>), SeArray(<< >>)}

\* seval_to_FontDefinition. A cocos2d::FontDefinition is the record of the
\* members the conversion writes; ret is what the caller's definition holds
\* before the call, and a member the call does not assign keeps it.
toUint8(v) == v.num % 256

\* obj->getProperty(name, &tmp) && tmp.isBoolean() / tmp.isObject()
BooleanField(obj, name) ==
    getProperty(obj, name).ok /\ isBoolean(getProperty(obj, name).value)
ObjectField(obj, name) ==
    getProperty(obj, name).ok /\ isObject(getProperty(obj, name).value)

Color3B_WHITE == [r |-> 255, g |-> 255, b |-> 255]
Color3B_BLUE == [r |-> 0, g |-> 0, b |-> 255]
TextHAlignment_LEFT == 0
TextVAlignment_TOP == 0
defaultFontSize == 32
defautlFontName == "Arial"

\* cocos2d::Size(5, 5)
Size(width, height) == [width |-> width, height |-> height]

FontShadow(enabled, offset, blur, opacity) ==
    [_shadowEnabled |-> enabled, _shadowOffset |-> offset,
     _shadowBlur |-> blur, _shadowOpacity |-> opacity]
FontStroke(enabled, size, color, alpha) ==
    [_strokeEnabled |-> enabled, _strokeSize |-> size,
     _strokeColor |-> color, _strokeAlpha |-> alpha]

\* font name
FontName(obj) ==
    IF StringField(obj, "fontName")
    THEN IF Prop(obj, "fontName").str = ""
         THEN defautlFontName
         ELSE Prop(obj, "fontName").str
    ELSE defautlFontName

\* font size, font alignment horizontal and vertical
Int32Or(obj, name, default) ==
    IF NumberField(obj, name) THEN toInt32(Prop(obj, name)) ELSE default

\* font fill color: white, or what seval_to_Color3B leaves in it
FontFillColor(obj) ==
    IF ObjectField(obj, "fillStyle")
    THEN Color3BResult(Prop(obj, "fillStyle")).out
    ELSE Color3B_WHITE

\* font rendering box dimensions
Dimensions(obj, ret) ==
    IF NumberField(obj, "boundingWidth") /\ NumberField(obj, "boundingHeight")
    THEN Size(FloatField(obj, "boundingWidth"),
              FloatField(obj, "boundingHeight"))
    ELSE ret._dimensions

\* shadow offset: both of shadowOffsetX and shadowOffsetY, or Size(5, 5)
ShadowOffsetEither(obj) ==
    IF NumberField(obj, "shadowOffsetX") \/ NumberField(obj, "shadowOffsetY")
    THEN Size(FloatField(obj, "shadowOffsetX"),
              FloatField(obj, "shadowOffsetY"))
    ELSE Size(5, 5)
ShadowOffset(obj) ==
    IF NumberField(obj, "shadowOffsetX") /\ NumberField(obj, "shadowOffsetY")
    THEN Size(FloatField(obj, "shadowOffsetX"),
              FloatField(obj, "shadowOffsetY"))
    ELSE Size(5, 5)

\* shadow blur, shadow intensity, stroke size
NumberOr(obj, name, default) ==
    IF NumberField(obj, name) THEN toNumber(Prop(obj, name)) ELSE default

\* shadow
Shadow(obj, ret) ==
    IF BooleanField(obj, "shadowEnabled")
           /\ toBoolean(Prop(obj, "shadowEnabled"))
    THEN FontShadow(TRUE, ShadowOffset(obj),
                    NumberOr(obj, "shadowBlur", 1),
                    NumberOr(obj, "shadowOpacity", 1))
    ELSE [ret._shadow EXCEPT !._shadowEnabled = FALSE]

\* stroke
Stroke(obj, ret) ==
    IF BooleanField(obj, "strokeEnabled")
           /\ toBoolean(Prop(obj, "strokeEnabled"))
    THEN FontStroke(TRUE,
                    NumberOr(obj, "lineWidth", 1),
                    IF ObjectField(obj, "strokeStyle")
                    THEN Color3BResult(Prop(obj, "strokeStyle")).out
                    ELSE Color3B_BLUE,
                    IF NumberField(obj, "strokeAlpha")
                    THEN toUint8(Prop(obj, "strokeAlpha"))
                    ELSE ret._stroke._strokeAlpha)
    ELSE [ret._stroke EXCEPT !._strokeEnabled = FALSE]

FontDefinition(name, size, alignment, vertAlignment, fill, dimensions,
               shadow, stroke) ==
    [_fontName |-> name, _fontSize |-> size, _alignment |-> alignment,
     _vertAlignment |-> vertAlignment, _fontFillColor |-> fill,
     _dimensions |-> dimensions, _shadow |-> shadow, _stroke |-> stroke]

\* assert(v.isObject()) stops a build with assertions; without them
\* v.toObject() of a value that is no object is used as one.
SevalToFontDefinition(v, ret, debug) ==
    IF ~isObject(v)
    THEN IF debug THEN Aborted ELSE UndefinedBehaviour
    ELSE Done(TRUE,
              FontDefinition(FontName(v),
                             Int32Or(v, "fontSize", defaultFontSize),
                             Int32Or(v, "textAlign", TextHAlignment_LEFT),
                             Int32Or(v, "verticalAlign", TextVAlignment_TOP),
                             FontFillColor(v), Dimensions(v, ret),
                             Shadow(v, ret), Stroke(v, ret)))

seval_to_FontDefinition(ret, debug) ==
    /\ NoArray(Hand)
    /\ Finishes("seval_to_FontDefinition", ret,
                SevalToFontDefinition(Hand, ret, debug), {ret})

\* What the caller's font definition holds before the call: one never
\* used, and one a text with a shadow and a stroke was drawn with.
FontDefinitions ==
    {FontDefinition("", 0, 1, 0, Color3B_WHITE, Size(0, 0),
                    FontShadow(FALSE, Size(0, 0), 0, 0),
                    FontStroke(FALSE, 0, Color3B_BLACK, 255)),
     FontDefinition("Old", 8, 2, 2, Color3B_BLACK, Size(9, 9),
                    FontShadow(TRUE, Size(9, 9), 9, 9),
                    FontStroke(TRUE, 9, Color3B_BLACK, 9))}

\* The values converted to tagged values: the scalars, and plain objects
\* with up to MaxKeys keys.
NullProbes == {SeUndefined, SeNull}
ScalarProbes == {SeNumber(1), SeString("x"), SeBoolean(TRUE)}
KeyTexts == {"3", "03", "12", "abc", "", "2147483648"}
MapValueProbes ==
    {SeString("x"), SeString("y"), SeNull, SeArray(<<SeNumber(1)>>)}

KeyLists ==
    {keys \in UNION {[1 .. n -> KeyTexts] : n \in 0 .. MaxKeys} :
         \A i, j \in 1 .. Len(keys) : i # j => keys[i] # keys[j]}
MapObjects ==
    UNION {{SeObject(keys, values) : values \in [1 .. Len(keys) -> MapValueProbes]} :
               keys \in KeyLists}

\* The arrays converted to a list: up to MaxElements elements that are
\* scalars, null or undefined, arrays or plain objects.
ArrayElementProbes ==
    {SeNumber(1), SeString("a"), SeBoolean(TRUE), SeNull, SeUndefined,
     SeArray(<< >>), SeArray(<<SeNumber(2), SeString("b")>>),
     SeObject(<<"k">>, <<SeNumber(3)>>),
     SeObject(<<"">>, <<SeNumber(4)>>),
     SeObject(<<"k", "j">>, <<SeBoolean(FALSE), SeArray(<<SeNumber(5)>>)>>)}
TaggedArrays ==
    {SeArray(elements) :
         elements \in UNION {[1 .. n -> ArrayElementProbes] :
                                 n \in 0 .. MaxElements}}

\* What the output list holds before seval_to_ccvaluevector is called.
OutputLists == {EmptyVector, CcVector(<<CcString("old")>>)}

\* The scripting objects the conversions are called with: every field of
\* the conversion is absent or holds one of the probe values.
Absent == SeValue("Absent", 0, "", << >>, << >>)
FieldProbes ==
    {Absent, SeNumber(1), SeNumber(2), SeNumber(BigNumber), SeString("a")}

Fields(names) == {names[i] : i \in 1 .. Len(names)}
PresentKeys(names, f) == SelectSeq(names, LAMBDA n : f[n] # Absent)
MakeObject(names, f) ==
    SeObject(PresentKeys(names, f),
             [i \in 1 .. Len(PresentKeys(names, f)) |->
                  f[PresentKeys(names, f)[i]]])
ObjectsOver(names, probes) ==
    {MakeObject(names, f) : f \in [Fields(names) -> probes]}

\* The fields of the catalogue are absent, a number (300 is no byte), or a
\* string.
CatalogueProbes == {Absent, SeNumber(1), SeNumber(300), SeString("a")}
FewProbes == {Absent, SeNumber(1), SeString("a")}
CatalogueObjects ==
    ObjectsOver(<<"x", "y", "width", "height">>, CatalogueProbes)
        \cup ObjectsOver(<<"r", "g", "b", "a">>, CatalogueProbes)
        \cup ObjectsOver(<<"src", "dst">>, CatalogueProbes)
        \cup ObjectsOver(<<"x", "y", "z", "timestamp">>, CatalogueProbes)
        \cup ObjectsOver(<<"a", "b", "c", "d", "tx", "ty">>, FewProbes)
        \cup ObjectsOver(<<"left", "bottom", "width", "height">>,
                         CatalogueProbes)
        \cup ObjectsOver(<<"countOfMaxProcessingTasks", "timeoutInSeconds",
                           "tempFileNameSuffix">>, CatalogueProbes)
        \cup ObjectsOver(<<"type", "name", "plist">>, CatalogueProbes)

\* The objects converted to a font definition: the text fields, the shadow
\* fields, the stroke fields, and the fill colour with the box, each field
\* absent or holding a value of the expected kind or of another kind.
ColorProbes ==
    {SeObject(<<"r", "g", "b">>, <<SeNumber(1), SeNumber(2), SeNumber(3)>>),
     SeObject(<<"r", "g">>, <<SeNumber(1), SeNumber(2)>>)}
FontObjects ==
    ObjectsOver(<<"fontName", "fontSize", "textAlign", "verticalAlign">>,
                {Absent, SeString(""), SeString("Courier"), SeNumber(2)})
        \cup ObjectsOver(<<"shadowEnabled", "shadowOffsetX", "shadowOffsetY",
                           "shadowBlur", "shadowOpacity">>,
                         {Absent, SeBoolean(TRUE), SeNumber(2), SeNumber(3),
                          SeString("a")})
        \cup ObjectsOver(<<"strokeEnabled", "strokeStyle", "lineWidth",
                           "strokeAlpha">>,
                         {Absent, SeBoolean(TRUE), SeBoolean(FALSE),
                          SeNumber(300)} \cup ColorProbes)
        \cup ObjectsOver(<<"shadowEnabled", "fillStyle", "boundingWidth",
                           "boundingHeight">>,
                         {Absent, SeBoolean(FALSE), SeNumber(2)}
                             \cup ColorProbes)
        \cup {SeObject(<<"fontName", "shadowEnabled">>,
                        <<SeString(""), SeBoolean(TRUE)>>),
              SeObject(<<"other">>, <<SeNumber(1)>>)}

----------------------------------------------------------------------------
(* The skeletal-animation projections, jsb_conversions.cpp lines 1723-1791.*)
(*                                                                         *)
(* A skeleton is a sequence of bone data; a parent is the position of a    *)
(* bone before it, 0 for a null pointer, so that parent chains are finite  *)
(* and acyclic.  Live bone i has bone data i and the live bone of its      *)
(* parent.  A call of spbonedata_to_seval or spbone_to_seval is a frame on *)
(* boneStack; each action is one step of the frame on top.                 *)

BoneNames == {"root", "hip"}

spBoneData(index, name, parent) ==
    [index |-> index, name |-> name, parent |-> parent, length |-> index + 1,
     x |-> 0, y |-> 0, rotation |-> 0, scaleX |-> 1, scaleY |-> 1,
     shearX |-> 0, shearY |-> 0, transformMode |-> 0]

spBone(i) ==
    [data |-> i, parent |-> bones[i].parent,
     x |-> bones[i].x, y |-> bones[i].y, rotation |-> bones[i].rotation,
     scaleX |-> bones[i].scaleX, scaleY |-> bones[i].scaleY,
     shearX |-> bones[i].shearX, shearY |-> bones[i].shearY,
     a |-> 1, b |-> 0, c |-> 0, d |-> 1, worldX |-> 0, worldY |-> 0]

Skeletons ==
    UNION {{[i \in 1 .. n |-> spBoneData(i - 1, names[i], parents[i])] :
                names \in [1 .. n -> BoneNames],
                parents \in {p \in [1 .. n -> 0 .. n - 1] :
                                 \A i \in 1 .. n : p[i] < i}} :
               n \in 1 .. MaxBones}

Frame(fn, bone) ==
    [fn |-> fn, bone |-> bone, pc |-> "start",
     parentVal |-> SeUndefined, data |-> SeUndefined]
NoBoneCall == [fn |-> "none", bone |-> 0]
NoBoneRet == [ok |-> FALSE, value |-> SeUndefined]

BoneInit ==
    /\ bones = << >>
    /\ boneStack = << >>
    /\ boneCall = NoBoneCall
    /\ boneRet = NoBoneRet

Top == boneStack[Len(boneStack)]
SetTop(frame) == [boneStack EXCEPT ![Len(boneStack)] = frame]

\* 0 != strcmp(v.name, "root") && v.parent
ConvertsParentAlways(name, parent) == parent # 0
ConvertsParent(name, parent) == name # "root" /\ parent # 0

\* The name and the parent the frame on top tests: v.name and v.parent of
\* bone data, v.data->name and v.parent of a live bone.
TopName == bones[Top.bone].name
TopParent ==
    IF Top.fn = "spbone_to_seval" THEN spBone(Top.bone).parent
    ELSE bones[Top.bone].parent

\* The object spbonedata_to_seval builds.
BoneDataObject(v, parentVal) ==
    SeObject(<<"index", "name", "parent", "length", "x", "y", "rotation",
               "scaleX", "scaleY", "shearX", "shearY", "transformMode">>,
             <<SeNumber(v.index), SeString(v.name), parentVal,
               SeNumber(v.length), SeNumber(v.x), SeNumber(v.y),
               SeNumber(v.rotation), SeNumber(v.scaleX), SeNumber(v.scaleY),
               SeNumber(v.shearX), SeNumber(v.shearY),
               SeNumber(v.transformMode)>>)

\* The object spbone_to_seval builds.
BoneObject(v, data, parentVal) ==
    SeObject(<<"data", "parent", "x", "y", "rotation", "scaleX", "scaleY",
               "shearX", "shearY", "m00", "m01", "m10", "m11", "worldX",
               "worldY">>,
             <<data, parentVal, SeNumber(v.x), SeNumber(v.y),
               SeNumber(v.rotation), SeNumber(v.scaleX), SeNumber(v.scaleY),
               SeNumber(v.shearX), SeNumber(v.shearY), SeNumber(v.a),
               SeNumber(v.b), SeNumber(v.c), SeNumber(v.d),
               SeNumber(v.worldX), SeNumber(v.worldY)>>)

\* The binding of a skeleton calls a projection on one of its bones.
BoneStart(fn, bone) ==
    /\ boneCall = NoBoneCall
    /\ bone \in 1 .. Len(bones)
    /\ boneCall' = [fn |-> fn, bone |-> bone]
    /\ boneStack' = <<Frame(fn, bone)>>
    /\ UNCHANGED <<bones, boneRet>>

\* The test of the parent holds: the function calls itself on the parent.
BoneDescend ==
    /\ boneStack # << >>
    /\ Top.pc = "start"
    /\ ConvertsParent(TopName, TopParent)
    /\ boneStack' = Append(SetTop([Top EXCEPT !.pc = "parent"]),
                           Frame(Top.fn, TopParent))
    /\ UNCHANGED <<bones, boneCall, boneRet>>

\* The test fails: parentVal stays undefined.
BoneNoParent ==
    /\ boneStack # << >>
    /\ Top.pc = "start"
    /\ ~ConvertsParent(TopName, TopParent)
    /\ boneStack' = SetTop([Top EXCEPT !.pc = "afterParent"])
    /\ UNCHANGED <<bones, boneCall, boneRet>>

\* spbone_to_seval calls spbonedata_to_seval(*v.data, &data).
BoneData ==
    /\ boneStack # << >>
    /\ Top.fn = "spbone_to_seval"
    /\ Top.pc = "afterParent"
    /\ boneStack' = Append(SetTop([Top EXCEPT !.pc = "data"]),
                           Frame("spbonedata_to_seval", spBone(Top.bone).data))
    /\ UNCHANGED <<bones, boneCall, boneRet>>

\* What the frame on top returns: the object and true, or, after a call
\* it made returned false, undefined and false.
TopResult ==
    IF Top.pc = "failed" THEN [ok |-> FALSE, value |-> SeUndefined]
    ELSE IF Top.fn = "spbone_to_seval"
         THEN [ok |-> TRUE,
               value |-> BoneObject(spBone(Top.bone), Top.data, Top.parentVal)]
         ELSE [ok |-> TRUE,
               value |-> BoneDataObject(bones[Top.bone], Top.parentVal)]

\* JSB_PRECONDITION3(call, false, ret->setUndefined()) in the caller.
Resume(caller, result) ==
    IF ~result.ok THEN [caller EXCEPT !.pc = "failed"]
    ELSE IF caller.pc = "parent"
         THEN [caller EXCEPT !.parentVal = result.value, !.pc = "afterParent"]
         ELSE [caller EXCEPT !.data = result.value, !.pc = "afterData"]

\* The frame on top returns to its caller.
BoneReturn ==
    /\ boneStack # << >>
    /\ \/ Top.pc = "failed"
       \/ Top.fn = "spbonedata_to_seval" /\ Top.pc = "afterParent"
       \/ Top.fn = "spbone_to_seval" /\ Top.pc = "afterData"
    /\ IF Len(boneStack) = 1
       THEN /\ boneStack' = << >>
            /\ boneRet' = TopResult
       ELSE /\ boneStack' =
                   [SubSeq(boneStack, 1, Len(boneStack) - 1)
                       EXCEPT ![Len(boneStack) - 1] =
                           Resume(boneStack[Len(boneStack) - 1], TopResult)]
            /\ UNCHANGED boneRet
    /\ UNCHANGED <<bones, boneCall>>

----------------------------------------------------------------------------
(* Specifications.                                                         *)

Init == StageInit /\ WindowInit /\ PipelineInit /\ ConvInit /\ BoneInit

\* The registry calls, with the names and lists drawn as said above.
AddStageCall == (\E name \in CallNames : addStage(name)) /\ UNCHANGED <<windowVars, pipeVars, convVars, boneVars>>
StageIDCall == (\E name \in ProbeNames : stageID(name)) /\ UNCHANGED <<windowVars, pipeVars, convVars, boneVars>>
StageIDsCall == (\E nameList \in NameLists : stageIDs(nameList)) /\ UNCHANGED <<windowVars, pipeVars, convVars, boneVars>>

StageNext == AddStageCall \/ StageIDCall \/ StageIDsCall

\* The registry alone.
StageSpec == Init /\ [][StageNext]_vars

\* One window through its life: initialize is called once, on the window
\* the factory made; resize is called while the window holds a pool
\* handle (how the pools resolve NULL_HANDLE is not part of these files);
\* destroy may be called at any time, any number of times.
InitializeCall ==
    /\ _renderPass = Null
    /\ \E info \in Infos : initialize(info)
    /\ UNCHANGED <<stageVars, pipeVars, convVars, boneVars>>

ResizeCall ==
    /\ _poolHandle # NULL_HANDLE
    /\ \E width, height \in Dims : resize(width, height)
    /\ UNCHANGED <<stageVars, pipeVars, convVars, boneVars>>

DestroyCall == destroy /\ UNCHANGED <<stageVars, pipeVars, convVars, boneVars>>

WindowNext == InitializeCall \/ ResizeCall \/ DestroyCall

\* The window alone.
WindowSpec == Init /\ [][WindowNext]_vars

\* The window object used again: initialize is called whatever state the
\* object is in, on infos of one size with no mask or the mask 1.
ReuseInfos ==
    {info \in Infos : /\ info.width = 1 /\ info.height = 1
                      /\ info.mask \in {NoMask, Mask(1)}}

InitializeAgainCall ==
    /\ Len(windowPool) < MaxInits
    /\ \E info \in ReuseInfos : initialize(info)
    /\ UNCHANGED <<stageVars, pipeVars, convVars, boneVars>>

WindowReuseNext == InitializeAgainCall \/ ResizeCall \/ DestroyCall

WindowReuseSpec == Init /\ [][WindowReuseNext]_vars

\* The calls on one pipeline, in any order.
SetValueCall ==
    /\ \E name \in MacroNames, value \in MacroValues : setValue(name, value)
    /\ UNCHANGED <<stageVars, windowVars, convVars, boneVars>>

IsOcclusionQueryEnabledCall ==
    isOcclusionQueryEnabled /\ UNCHANGED <<stageVars, windowVars, convVars, boneVars>>

SetOcclusionQueryEnabledCall ==
    /\ \E enable \in BOOLEAN : setOcclusionQueryEnabled(enable)
    /\ UNCHANGED <<stageVars, windowVars, convVars, boneVars>>

IsClusterEnabledCall == isClusterEnabled /\ UNCHANGED <<stageVars, windowVars, convVars, boneVars>>

SetClusterEnabledCall ==
    /\ \E enable \in BOOLEAN : setClusterEnabled(enable)
    /\ UNCHANGED <<stageVars, windowVars, convVars, boneVars>>

IsBloomEnabledCall == isBloomEnabled /\ UNCHANGED <<stageVars, windowVars, convVars, boneVars>>

SetBloomEnabledCall ==
    /\ \E enable \in BOOLEAN : setBloomEnabled(enable)
    /\ UNCHANGED <<stageVars, windowVars, convVars, boneVars>>

PipelineNext ==
    \/ SetValueCall
    \/ IsOcclusionQueryEnabledCall \/ SetOcclusionQueryEnabledCall
    \/ IsClusterEnabledCall \/ SetClusterEnabledCall
    \/ IsBloomEnabledCall \/ SetBloomEnabledCall

\* The pipeline alone.
PipelineSpec == Init /\ [][PipelineNext]_vars

\* The conversions, each called on the value drawn at the start.
ConvOthers == <<stageVars, windowVars, pipeVars, boneVars>>

ConvInputs ==
    {SeUndefined}
        \cup ObjectsOver(<<"x", "y", "z", "w">>, FieldProbes)
        \cup MatArrays
        \cup CatalogueObjects
        \cup NullProbes \cup ScalarProbes \cup MapObjects \cup TaggedArrays
        \cup FontObjects \cup BooleanProbes

ConvSpecInit ==
    /\ StageInit /\ WindowInit /\ PipelineInit /\ _device.supportQuery
    /\ BoneInit
    /\ \E v \in ConvInputs : ConvStart(v)

Vec2Call == seval_to_Vec2 /\ UNCHANGED ConvOthers
Vec3Call == seval_to_Vec3 /\ UNCHANGED ConvOthers
Vec4Call == seval_to_Vec4 /\ UNCHANGED ConvOthers

Mat4Call ==
    /\ \E mat \in {Mat4_IDENTITY, Mat4_Base} : seval_to_Mat4(mat)
    /\ UNCHANGED ConvOthers

Mat4ToSevalCall ==
    /\ \E v \in Matrices : Mat4_to_seval(v)
    /\ UNCHANGED ConvOthers

SizeCall == seval_to_Size /\ UNCHANGED ConvOthers
RectCall == seval_to_Rect /\ UNCHANGED ConvOthers
Color3BCall == seval_to_Color3B /\ UNCHANGED ConvOthers

Color4BCall ==
    /\ \E junk \in Unspecified : seval_to_Color4B(junk)
    /\ UNCHANGED ConvOthers

Color4FCall ==
    /\ \E junk \in Unspecified : seval_to_Color4F(junk)
    /\ UNCHANGED ConvOthers

Color4FToSevalCall ==
    /\ \E v \in Colors4F : Color4F_to_seval(v)
    /\ UNCHANGED ConvOthers

BlendFuncCall ==
    /\ \E junk \in Unspecified : seval_to_blendfunc(junk)
    /\ UNCHANGED ConvOthers

AccelerationCall == seval_to_Acceleration /\ UNCHANGED ConvOthers
QuaternionCall == seval_to_Quaternion /\ UNCHANGED ConvOthers
AffineTransformCall == seval_to_AffineTransform /\ UNCHANGED ConvOthers
ViewportCall == seval_to_Viewport /\ UNCHANGED ConvOthers
DownloaderHintsCall == seval_to_DownloaderHints /\ UNCHANGED ConvOthers
ResourceDataCall == seval_to_ResourceData /\ UNCHANGED ConvOthers

CcvalueCall ==
    /\ \E debug \in BOOLEAN : seval_to_ccvalue(debug)
    /\ UNCHANGED ConvOthers

CcvaluemapCall ==
    /\ \E debug \in BOOLEAN : seval_to_ccvaluemap(debug)
    /\ UNCHANGED ConvOthers

CcvaluemapintkeyCall ==
    /\ \E debug \in BOOLEAN, junk \in Unspecified :
           seval_to_ccvaluemapintkey(debug, junk)
    /\ UNCHANGED ConvOthers

CcvaluevectorCall ==
    /\ \E ret \in OutputLists, debug \in BOOLEAN :
           seval_to_ccvaluevector(ret, debug)
    /\ UNCHANGED ConvOthers

CcvaluevectorToSevalCall == ccvaluevector_to_seval /\ UNCHANGED ConvOthers

BooleanCall == seval_to_boolean /\ UNCHANGED ConvOthers

TTFConfigCall ==
    (\E debug \in BOOLEAN : seval_to_TTFConfig(debug)) /\ UNCHANGED ConvOthers
B2Vec2Call ==
    (\E debug \in BOOLEAN : seval_to_b2Vec2(debug)) /\ UNCHANGED ConvOthers
B2AABBCall ==
    (\E debug \in BOOLEAN : seval_to_b2AABB(debug)) /\ UNCHANGED ConvOthers
B2Vec2ToSevalCall ==
    (\E debug \in BOOLEAN : b2Vec2_to_seval(debug)) /\ UNCHANGED ConvOthers
B2ManifoldToSevalCall ==
    /\ \E debug \in BOOLEAN : b2Manifold_to_seval(debug)
    /\ UNCHANGED ConvOthers
B2AABBToSevalCall ==
    (\E debug \in BOOLEAN : b2AABB_to_seval(debug)) /\ UNCHANGED ConvOthers

FontDefinitionCall ==
    /\ \E ret \in FontDefinitions, debug \in BOOLEAN :
           seval_to_FontDefinition(ret, debug)
    /\ UNCHANGED ConvOthers

ConvNext ==
    \/ CcvalueCall \/ CcvaluemapCall \/ CcvaluemapintkeyCall
    \/ CcvaluevectorCall \/ CcvaluevectorToSevalCall
    \/ Vec2Call \/ Vec3Call \/ Vec4Call
    \/ Mat4Call \/ Mat4ToSevalCall
    \/ SizeCall \/ RectCall
    \/ Color3BCall \/ Color4BCall \/ Color4FCall \/ Color4FToSevalCall
    \/ BlendFuncCall \/ AccelerationCall \/ QuaternionCall
    \/ AffineTransformCall \/ ViewportCall
    \/ DownloaderHintsCall \/ ResourceDataCall
    \/ FontDefinitionCall \/ BooleanCall
    \/ TTFConfigCall \/ B2Vec2Call \/ B2AABBCall
    \/ B2Vec2ToSevalCall \/ B2ManifoldToSevalCall \/ B2AABBToSevalCall

\* The conversion layer alone.
ConvSpec == ConvSpecInit /\ [][ConvNext]_vars

\* One projection of a bone of a skeleton, run step by step.
BoneOthers == <<stageVars, windowVars, pipeVars, convVars>>

BoneSpecInit ==
    /\ StageInit /\ WindowInit /\ PipelineInit /\ _device.supportQuery
    /\ ConvInit
    /\ bones \in Skeletons
    /\ boneStack = << >>
    /\ boneCall = NoBoneCall
    /\ boneRet = NoBoneRet

BoneStartCall ==
    /\ \E fn \in {"spbonedata_to_seval", "spbone_to_seval"},
          bone \in 1 .. MaxBones : BoneStart(fn, bone)
    /\ UNCHANGED BoneOthers
BoneDescendStep == BoneDescend /\ UNCHANGED BoneOthers
BoneNoParentStep == BoneNoParent /\ UNCHANGED BoneOthers
BoneDataStep == BoneData /\ UNCHANGED BoneOthers
BoneReturnStep == BoneReturn /\ UNCHANGED BoneOthers

BoneNext ==
    \/ BoneStartCall \/ BoneDescendStep \/ BoneNoParentStep
    \/ BoneDataStep \/ BoneReturnStep

\* A call that can take a step takes it: the thread that runs the
\* projection is not stopped.
BoneSpec == BoneSpecInit /\ [][BoneNext]_vars /\ WF_vars(BoneNext)

----------------------------------------------------------------------------
(* Properties of RenderWindow.                                             *)

\* The textures the window owns, in the order resize visits them: the
\* depth-stencil texture, then each present colour texture.
Present(id) == id # Null
OwnedTextures ==
    (IF _depthStencilTexture # Null THEN <<_depthStencilTexture>> ELSE << >>)
        \o SelectSeq(_colorTextures, Present)

\* C6: over any sequence of resize calls after initialize the native
\* width and the native height are each non-decreasing.
C6_NativeNeverShrinks ==
    [][winCall'.op = "resize" =>
          (_nativeWidth' >= _nativeWidth /\ _nativeHeight' >= _nativeHeight)]_vars

\* C7: resize(w, h) with w <= native width and h <= native height sets
\* the logical size to (w, h) and changes nothing else: the native size
\* stays, no texture is resized, the framebuffer is neither destroyed nor
\* initialized again.
C7_ResizeWithinNative ==
    [][(winCall'.op = "resize" /\ winCall'.width <= _nativeWidth
                               /\ winCall'.height <= _nativeHeight)
          => /\ _width' = winCall'.width
             /\ _height' = winCall'.height
             /\ gfxLog' = << >>
             /\ UNCHANGED <<_nativeWidth, _nativeHeight, ownedVars, gfxVars>>]_vars

\* A window that owns textures was resized below its native size.
C7_Witness ==
    /\ winCall.op = "resize"
    /\ _width < _nativeWidth
    /\ _height <= _nativeHeight
    /\ OwnedTextures # << >>
    /\ gfxLog = << >>

\* C8: resize(w, h) with w > native width or h > native height sets the
\* native size to (w, h), resizes the depth-stencil texture (if present)
\* and then each present colour texture to (w, h), and destroys and
\* initializes the framebuffer again, against the same render pass and
\* texture list, exactly when at least one texture was resized; a window
\* that owns no texture leaves the framebuffer untouched.
C8_ResizeBeyondNative ==
    [][(winCall'.op = "resize" /\ (winCall'.width > _nativeWidth
                                   \/ winCall'.height > _nativeHeight))
          => LET w == winCall'.width
                 h == winCall'.height
                 fb == windowPool[_poolHandle].FRAMEBUFFER
                 n == Len(OwnedTextures)
             IN  /\ _nativeWidth' = w /\ _nativeHeight' = h
                 /\ UNCHANGED <<ownedVars, windowPool>>
                 /\ \A k \in 1 .. n :
                       /\ gfxLog'[k] = LogEntry("resizeTexture", OwnedTextures[k], w, h)
                       /\ textures'[OwnedTextures[k]].width = w
                       /\ textures'[OwnedTextures[k]].height = h
                 /\ IF n > 0
                    THEN /\ Len(gfxLog') = n + 2
                         /\ gfxLog'[n + 1] = LogEntry("destroyFramebuffer", fb, 0, 0)
                         /\ gfxLog'[n + 2] = LogEntry("initializeFramebuffer", fb, 0, 0)
                         /\ framebuffers'[fb].renderPass = framebuffers[fb].renderPass
                         /\ framebuffers'[fb].colorTextures = _colorTextures
                         /\ framebuffers'[fb].depthStencilTexture = _depthStencilTexture
                    ELSE /\ gfxLog' = << >>
                         /\ framebuffers' = framebuffers]_vars

\* A window that owns a depth-stencil and a colour texture grew: both
\* were resized and the framebuffer was rebuilt.
C8_Witness ==
    /\ winCall.op = "resize"
    /\ _nativeWidth = _width /\ _nativeHeight = _height
    /\ _depthStencilTexture # Null
    /\ Len(OwnedTextures) >= 2
    /\ Len(gfxLog) = Len(OwnedTextures) + 2
    /\ gfxLog[1] = LogEntry("resizeTexture", _depthStencilTexture, _width, _height)

\* A window that owns no texture grew and its framebuffer was left alone.
C8_WitnessNoTexture ==
    /\ winCall.op = "resize"
    /\ _poolHandle # NULL_HANDLE
    /\ OwnedTextures = << >>
    /\ _nativeWidth > 1
    /\ gfxLog = << >>

\* C9: after initialize and after any sequence of resize calls the native
\* width and height are at least the logical width and height, and the
\* logical width and height are the arguments of the last initialize or
\* resize.
C9_NativeCoversLogical ==
    /\ _nativeWidth >= _width
    /\ _nativeHeight >= _height
    /\ winCall.op \in {"initialize", "resize"}
          => (_width = winCall.width /\ _height = winCall.height)

\* A resize beyond the native size, to a width above the height, of a
\* window whose textures are alive.
C9_Witness ==
    /\ winCall.op = "resize"
    /\ _nativeWidth = _width /\ _nativeHeight = _height
    /\ _width > _height
    /\ \E k \in 1 .. Len(textures) : textures[k].alive

\* The swapchain-buffer-index mask marks no colour slot of the info as
\* swapchain-backed.
NoSlotOnScreen ==
    \A i \in 0 .. winCall.info.colors - 1 : ~Bit(_swapchainBufferIndices, i)

\* C10 as stated: a window initialized with a mask that marks no colour
\* slot as swapchain-backed has off-screen and no on-screen attachments.
C10_OffScreenOnly ==
    (winCall.op = "initialize" /\ NoSlotOnScreen)
        => (hasOffScreenAttachments /\ ~hasOnScreenAttachments)

\* C10 amended: the same, for a window that has an attachment at all (a
\* colour attachment, or a depth-stencil one) and whose mask, when a
\* depth-stencil attachment is present, has its sign bit clear.
C10_OffScreenOnlyAmended ==
    (/\ winCall.op = "initialize"
     /\ NoSlotOnScreen
     /\ winCall.info.colors > 0 \/ winCall.info.depth
     /\ winCall.info.depth => ~Bit(_swapchainBufferIndices, 31))
        => (hasOffScreenAttachments /\ ~hasOnScreenAttachments)

\* A window with one colour slot and a depth-stencil attachment was
\* initialized under a mask that marks only a slot it does not have.
C10_Witness ==
    /\ winCall.op = "initialize"
    /\ NoSlotOnScreen
    /\ winCall.info.colors = 1
    /\ winCall.info.depth
    /\ _swapchainBufferIndices = 2
    /\ hasOffScreenAttachments /\ ~hasOnScreenAttachments

\* C11: after initialize, colour slot i holds an owned, live colour
\* texture of the requested width and height exactly when bit i of the
\* swapchain-buffer-index mask is clear, and is null otherwise; the
\* has-off-screen flag is marked when some slot's bit is clear and the
\* has-on-screen flag when some slot's bit is set.
C11_SlotsFollowMask ==
    winCall.op = "initialize" =>
        /\ Len(_colorTextures) = winCall.info.colors
        /\ \A i \in 0 .. winCall.info.colors - 1 :
              IF ~Bit(_swapchainBufferIndices, i)
              THEN /\ _colorTextures[i + 1] # Null
                   /\ textures[_colorTextures[i + 1]] =
                          [usage |-> "color", width |-> winCall.info.width,
                           height |-> winCall.info.height, alive |-> TRUE]
                   /\ \A j \in 0 .. winCall.info.colors - 1 :
                          j # i => _colorTextures[j + 1] # _colorTextures[i + 1]
              ELSE _colorTextures[i + 1] = Null
        /\ (\E i \in 0 .. winCall.info.colors - 1 : ~Bit(_swapchainBufferIndices, i))
              => hasOffScreenAttachments
        /\ (\E i \in 0 .. winCall.info.colors - 1 : Bit(_swapchainBufferIndices, i))
              => hasOnScreenAttachments

\* A window with two colour slots was initialized under mask 2: slot 0
\* is an owned texture, slot 1 is left to the swapchain.
C11_Witness ==
    /\ winCall.op = "initialize"
    /\ winCall.info.colors = 2
    /\ _swapchainBufferIndices = 2
    /\ _colorTextures[1] # Null
    /\ _colorTextures[2] = Null
    /\ hasOffScreenAttachments /\ hasOnScreenAttachments

\* C12: destroy() on an initialized window leaves the handle NULL_HANDLE,
\* the depth-stencil reference null and the colour-texture list empty,
\* and destroys the depth-stencil texture, every present colour texture
\* and the pooled framebuffer exactly once each (and nothing else).
C12_DestroyReleasesAll ==
    [][(winCall'.op = "destroy" /\ _poolHandle # NULL_HANDLE)
          => LET fb == windowPool[_poolHandle].FRAMEBUFFER
                 n == Len(OwnedTextures)
                 Count(e) == Cardinality({k \in 1 .. Len(gfxLog') : gfxLog'[k] = e})
             IN  /\ _poolHandle' = NULL_HANDLE
                 /\ _depthStencilTexture' = Null
                 /\ _colorTextures' = << >>
                 /\ Len(gfxLog') = n + 1
                 /\ \A k \in 1 .. n :
                       /\ Count(LogEntry("destroyTexture", OwnedTextures[k], 0, 0)) = 1
                       /\ ~textures'[OwnedTextures[k]].alive
                 /\ Count(LogEntry("destroyFramebuffer", fb, 0, 0)) = 1
                 /\ ~framebuffers'[fb].alive]_vars

\* destroy() ran on a window that owned a depth-stencil texture and two
\* colour textures.
C12_Witness ==
    /\ winCall.op = "destroy"
    /\ _poolHandle = NULL_HANDLE
    /\ Len(gfxLog) = 4
    /\ Len(textures) = 3
    /\ \A k \in 1 .. 3 : ~textures[k].alive

----------------------------------------------------------------------------
(* Properties of RenderPipeline.                                           *)

\* C13: isOcclusionQueryEnabled() returns true exactly when the flag last
\* set by setOcclusionQueryEnabled (false if never set) is true and the
\* device capability supportQuery is true.
C13_OcclusionQueryEnabled ==
    pipeCall.op = "isOcclusionQueryEnabled"
        => (pipeRet <=> (lastOcclusionArg /\ _device.supportQuery))

\* The query returned true after the flag was set on a device that
\* supports queries, while bloom and cluster were off.
C13_Witness ==
    /\ pipeCall.op = "isOcclusionQueryEnabled"
    /\ pipeRet
    /\ lastOcclusionArg /\ _device.supportQuery
    /\ ~_bloomEnabled /\ ~_clusterEnabled

\* The query returned false for a set flag on a device without queries.
C13_WitnessUnsupported ==
    /\ pipeCall.op = "isOcclusionQueryEnabled"
    /\ ~pipeRet
    /\ lastOcclusionArg /\ ~_device.supportQuery

----------------------------------------------------------------------------
(* Properties of the conversion layer.                                     *)

\* The fields a vector conversion requires.
VecFields(op) ==
    IF op = "seval_to_Vec2" THEN {"x", "y"}
    ELSE IF op = "seval_to_Vec3" THEN {"x", "y", "z"}
    ELSE {"x", "y", "z", "w"}

VecOps == {"seval_to_Vec2", "seval_to_Vec3", "seval_to_Vec4"}

\* The value of a field of an object that has the field.
FieldOf(obj, name) ==
    obj.items[CHOOSE i \in 1 .. Len(obj.keys) : obj.keys[i] = name]

HasNumber(obj, name) ==
    /\ \E i \in 1 .. Len(obj.keys) : obj.keys[i] = name
    /\ FieldOf(obj, name).type = "Number"

\* C14: a vector conversion is all-or-nothing: with every required field
\* present and numeric the output holds exactly those field values and the
\* call returns true; otherwise the output is the zero vector and the call
\* returns false.
C14_VecAllOrNothing ==
    convCall.op \in VecOps =>
        IF \A f \in VecFields(convCall.op) : HasNumber(convCall.arg, f)
        THEN /\ convRet
             /\ DOMAIN convOut = VecFields(convCall.op)
             /\ \A f \in VecFields(convCall.op) :
                   convOut[f] = FieldOf(convCall.arg, f).num
        ELSE /\ ~convRet
             /\ convOut = [f \in VecFields(convCall.op) |-> 0]

\* C14 amended: the output holds the field values narrowed to single
\* precision.
C14_VecAllOrNothingAmended ==
    convCall.op \in VecOps =>
        /\ convExit = "return"
        /\ IF \A f \in VecFields(convCall.op) : HasNumber(convCall.arg, f)
           THEN /\ convRet
                /\ DOMAIN convOut = VecFields(convCall.op)
                /\ \A f \in VecFields(convCall.op) :
                      /\ convOut[f] = FloatOf(FieldOf(convCall.arg, f).num)
                      /\ Abs(FieldOf(convCall.arg, f).num) <= FloatExact
                            => convOut[f] = FieldOf(convCall.arg, f).num
           ELSE /\ ~convRet
                /\ convOut = [f \in VecFields(convCall.op) |-> 0]

\* A 4D vector was converted from four numeric fields, one of them not a
\* single-precision value.
C14_Witness ==
    /\ convCall.op = "seval_to_Vec4"
    /\ convRet
    /\ convOut = [x |-> 1, y |-> 2, z |-> BigNumber - 1, w |-> 1]
    /\ FieldOf(convCall.arg, "z").num = BigNumber

\* A 3D vector conversion failed on its last field after reading two.
C14_WitnessRejected ==
    /\ convCall.op = "seval_to_Vec3"
    /\ ~convRet
    /\ HasNumber(convCall.arg, "x") /\ HasNumber(convCall.arg, "y")
    /\ ~HasNumber(convCall.arg, "z")
    /\ convOut = Vec3_ZERO

\* C15: Mat4_to_seval followed by seval_to_Mat4 succeeds and reproduces
\* the same 16 values in the same positions; seval_to_Mat4 of an array
\* whose length is not 16, or that contains a non-numeric element, returns
\* false and leaves the output as the identity matrix.
C15_Mat4RoundTrip ==
    convCall.op = "seval_to_Mat4" =>
        /\ convExit = "return"
        /\ convSrc # NoSrc =>
              /\ convRet
              /\ Len(convOut) = 16
              /\ \A i \in 1 .. 16 : convOut[i] = convSrc[i]
        /\ (/\ convCall.arg.type = "Array"
            /\ \/ Len(convCall.arg.items) # 16
               \/ \E i \in 1 .. Len(convCall.arg.items) :
                     convCall.arg.items[i].type # "Number")
              => /\ ~convRet
                 /\ convOut = Mat4_IDENTITY

\* A matrix with sixteen different values, one of them a large float, went
\* to a scripting array and back into an output that held the identity.
C15_Witness ==
    /\ convCall.op = "seval_to_Mat4"
    /\ convSrc = [Mat4_Base EXCEPT ![7] = BigFloat]
    /\ convRet
    /\ convOut = convSrc

\* An array of 15 numbers was rejected.
C15_WitnessShort ==
    /\ convCall.op = "seval_to_Mat4"
    /\ convCall.arg = NumberArray(15)
    /\ ~convRet /\ convOut = Mat4_IDENTITY

\* An array of 16 whose last element is a string was rejected after 15
\* elements had been stored.
C15_WitnessNonNumeric ==
    /\ convCall.op = "seval_to_Mat4"
    /\ Len(convCall.arg.items) = 16
    /\ convCall.arg.items[16] = SeString("a")
    /\ ~convRet /\ convOut = Mat4_IDENTITY

\* The catalogue of object conversions: the fields each one requires with
\* the kind expected of each, and the fallback value.
Entry(fields, kind, text, fallback) ==
    [fields |-> fields,
     kind |-> [f \in fields |-> IF f \in text THEN "String" ELSE kind],
     fallback |-> fallback]

Catalogue ==
    [seval_to_Size |->
         Entry({"width", "height"}, "Number", {}, Size_ZERO),
     seval_to_Rect |->
         Entry({"x", "y", "width", "height"}, "Number", {}, Rect_ZERO),
     seval_to_Color3B |->
         Entry({"r", "g", "b"}, "Number", {}, Color3B_BLACK),
     seval_to_Color4B |->
         Entry({"r", "g", "b", "a"}, "Number", {}, Color4B_BLACK),
     seval_to_Color4F |->
         Entry({"r", "g", "b", "a"}, "Number", {}, Color4F_BLACK),
     seval_to_blendfunc |->
         Entry({"src", "dst"}, "Number", {}, BlendFunc_DISABLE),
     seval_to_Acceleration |->
         Entry({"x", "y", "z", "timestamp"}, "Number", {}, Acceleration_ZERO),
     seval_to_Quaternion |->
         Entry({"x", "y", "z", "w"}, "Number", {}, Quaternion_ZERO),
     seval_to_AffineTransform |->
         Entry({"a", "b", "c", "d", "tx", "ty"}, "Number", {},
               AffineTransform_ZERO),
     seval_to_Viewport |->
         Entry({"left", "bottom", "width", "height"}, "Number", {},
               Viewport_ZERO),
     seval_to_DownloaderHints |->
         Entry({"countOfMaxProcessingTasks", "timeoutInSeconds",
                "tempFileNameSuffix"}, "Number", {"tempFileNameSuffix"},
               DownloaderHints_ZERO),
     seval_to_ResourceData |->
         Entry({"type", "name", "plist"}, "Number", {"name", "plist"},
               ResourceData_ZERO)]

HasKind(obj, name, kind) ==
    /\ \E i \in 1 .. Len(obj.keys) : obj.keys[i] = name
    /\ FieldOf(obj, name).type = kind

\* C16: for every conversion of the catalogue, if any one required field
\* is missing or not of the expected kind, the conversion returns false
\* and the output equals the fallback value.
C16_ValidationDiscipline ==
    convCall.op \in DOMAIN Catalogue =>
        LET entry == Catalogue[convCall.op]
        IN  (\E f \in entry.fields :
                 ~HasKind(convCall.arg, f, entry.kind[f]))
                => /\ convExit = "return"
                   /\ ~convRet
                   /\ convOut = entry.fallback

\* C17: seval_to_ccvaluemap of a null or undefined value yields an empty
\* map and returns true; of a number, string or boolean it returns false
\* with the map cleared.
C17_MapOfNonObject ==
    convCall.op = "seval_to_ccvaluemap" =>
        /\ convCall.arg.type \in {"Null", "Undefined"}
              => convExit = "return" /\ convRet /\ convOut = EmptyMap
        /\ convCall.arg.type \in {"Number", "String", "Boolean"}
              => convExit = "return" /\ ~convRet /\ convOut = EmptyMap

\* The half of C17 that holds: null and undefined give an empty map and
\* true.
C17_MapOfNull ==
    (convCall.op = "seval_to_ccvaluemap"
        /\ convCall.arg.type \in {"Null", "Undefined"})
        => convExit = "return" /\ convRet /\ convOut = EmptyMap

\* A value every part of which is a number, a string, a boolean, an array
\* or a plain object.
RECURSIVE Supported(_)
Supported(v) ==
    /\ v.type \in {"Number", "String", "Boolean", "Array", "Object"}
    /\ \A i \in 1 .. Len(v.items) : Supported(v.items[i])

\* The decimal text without leading zeros; the empty text reads as 0.
RECURSIVE Canonical(_)
Canonical(text) ==
    IF text = "" THEN "0"
    ELSE IF Len(text) > 1 /\ CharAt(text, 1) = "0" THEN Canonical(Tail(text))
    ELSE text

DigitsOnly(text) ==
    \A i \in 1 .. Len(text) : CharAt(text, i) \in {Digits[d] : d \in 1 .. 10}

\* C18: seval_to_ccvaluemapintkey succeeds and yields exactly one entry
\* for each own key of decimal digits only, keyed by the number the text
\* reads as and holding that key's converted value, and no entry for any
\* other key.
C18_IntKeyEntries ==
    (/\ convCall.op = "seval_to_ccvaluemapintkey"
     /\ convCall.arg.type = "Object"
     /\ Supported(convCall.arg))
        => /\ convExit = "return" /\ convRet
           /\ \A i \in 1 .. Len(convCall.arg.keys) :
                 DigitsOnly(convCall.arg.keys[i]) =>
                     \E j \in 1 .. Len(convOut.keys) :
                        /\ DecimalText(convOut.keys[j])
                               = Canonical(convCall.arg.keys[i])
                        /\ convOut.items[j]
                               = SevalToCcvalue(convCall.arg.items[i],
                                                CcNone, FALSE).out
                        /\ \A k \in 1 .. Len(convOut.keys) :
                              convOut.keys[k] = convOut.keys[j] => k = j
           /\ \A j \in 1 .. Len(convOut.keys) :
                 \E i \in 1 .. Len(convCall.arg.keys) :
                    /\ DigitsOnly(convCall.arg.keys[i])
                    /\ DecimalText(convOut.keys[j])
                           = Canonical(convCall.arg.keys[i])

\* Two scripting values of the same kind and value; the order of the keys
\* of an object does not count.
RECURSIVE SameValue(_, _)
SameValue(a, b) ==
    /\ a.type = b.type
    /\ a.num = b.num
    /\ a.str = b.str
    /\ Len(a.items) = Len(b.items)
    /\ IF a.type = "Object"
       THEN /\ Fields(a.keys) = Fields(b.keys)
            /\ \A i \in 1 .. Len(a.keys) :
                  SameValue(a.items[i], FieldOf(b, a.keys[i]))
       ELSE \A i \in 1 .. Len(a.items) : SameValue(a.items[i], b.items[i])

\* No object in v has the empty text as a key.
RECURSIVE NoEmptyKey(_)
NoEmptyKey(v) ==
    /\ \A i \in 1 .. Len(v.keys) : v.keys[i] # ""
    /\ \A i \in 1 .. Len(v.items) : NoEmptyKey(v.items[i])

\* C19: for every array of numbers, strings, booleans and nested arrays
\* and objects of these, seval_to_ccvaluevector followed by
\* ccvaluevector_to_seval succeeds and yields an array of the same length
\* with an element of the same kind and value at each index.
C19_VectorRoundTrip ==
    (convCall.arg.type = "Array" /\ Supported(convCall.arg)) =>
        /\ convCall.op = "seval_to_ccvaluevector"
              => convExit = "return" /\ convRet
        /\ convCall.op = "ccvaluevector_to_seval"
              => convRet /\ SameValue(convOut, convCall.arg)

\* C19 amended: the list converted into is empty and no nested object has
\* the empty text as a key.
C19_VectorRoundTripAmended ==
    (/\ convCall.arg.type = "Array" /\ Supported(convCall.arg)
     /\ convCall.into = EmptyVector
     /\ NoEmptyKey(convCall.arg)) =>
        /\ convCall.op = "seval_to_ccvaluevector"
              => convExit = "return" /\ convRet
        /\ convCall.op = "ccvaluevector_to_seval"
              => convRet /\ SameValue(convOut, convCall.arg)

\* An array of a number and an object with a boolean and a nested array
\* went to a list and back.
C19_Witness ==
    /\ convCall.op = "ccvaluevector_to_seval"
    /\ convCall.into = EmptyVector
    /\ convCall.arg =
           SeArray(<<SeNumber(1),
                     SeObject(<<"k", "j">>,
                              <<SeBoolean(FALSE), SeArray(<<SeNumber(5)>>)>>)>>)
    /\ convRet
    /\ convOut = convCall.arg

FontFields ==
    {"fontName", "fontSize", "textAlign", "verticalAlign", "fillStyle",
     "boundingWidth", "boundingHeight", "shadowEnabled", "shadowOffsetX",
     "shadowOffsetY", "shadowBlur", "shadowOpacity", "strokeEnabled",
     "strokeStyle", "lineWidth", "strokeAlpha"}

HasField(obj, name) == \E i \in 1 .. Len(obj.keys) : obj.keys[i] = name

\* The call of seval_to_FontDefinition on an object returned.
FontConverted ==
    /\ convCall.op = "seval_to_FontDefinition"
    /\ convCall.arg.type = "Object"

\* C20: font description defaulting: an object with no recognised field
\* converts to fontName "Arial", fontSize 32, alignment LEFT, vertical
\* alignment TOP, fill colour WHITE, shadow and stroke disabled; an empty
\* fontName gives "Arial"; shadowEnabled = true gives the offset 5x5 unless
\* shadowOffsetX and shadowOffsetY are both numbers, and blur 1 and
\* opacity 1, each unless its own field is a number, which then is the
\* value.
C20_FontDefaults ==
    FontConverted =>
        /\ convExit = "return" /\ convRet
        /\ (\A name \in FontFields : ~HasField(convCall.arg, name)) =>
               /\ convOut._fontName = "Arial"
               /\ convOut._fontSize = 32
               /\ convOut._alignment = 0
               /\ convOut._vertAlignment = 0
               /\ convOut._fontFillColor = [r |-> 255, g |-> 255, b |-> 255]
               /\ ~convOut._shadow._shadowEnabled
               /\ ~convOut._stroke._strokeEnabled
        /\ (/\ HasField(convCall.arg, "fontName")
            /\ FieldOf(convCall.arg, "fontName") = SeString("")) =>
               convOut._fontName = "Arial"
        /\ (/\ HasField(convCall.arg, "shadowEnabled")
            /\ FieldOf(convCall.arg, "shadowEnabled") = SeBoolean(TRUE)) =>
               /\ convOut._shadow._shadowEnabled
               /\ convOut._shadow._shadowOffset =
                      IF /\ HasNumber(convCall.arg, "shadowOffsetX")
                         /\ HasNumber(convCall.arg, "shadowOffsetY")
                      THEN [width |->
                                FieldOf(convCall.arg, "shadowOffsetX").num,
                            height |->
                                FieldOf(convCall.arg, "shadowOffsetY").num]
                      ELSE [width |-> 5, height |-> 5]
               /\ convOut._shadow._shadowBlur =
                      IF HasNumber(convCall.arg, "shadowBlur")
                      THEN FieldOf(convCall.arg, "shadowBlur").num
                      ELSE 1
               /\ convOut._shadow._shadowOpacity =
                      IF HasNumber(convCall.arg, "shadowOpacity")
                      THEN FieldOf(convCall.arg, "shadowOpacity").num
                      ELSE 1

\* A definition that had a shadow was converted from an object with an
\* empty fontName, shadowEnabled = true, and of the shadow fields only
\* shadowOffsetX and shadowBlur as numbers: the offset stays 5x5, the blur
\* is the field's.
C20_Witness ==
    /\ FontConverted
    /\ convCall.into._shadow._shadowOffset = [width |-> 9, height |-> 9]
    /\ HasField(convCall.arg, "shadowEnabled")
    /\ FieldOf(convCall.arg, "shadowEnabled") = SeBoolean(TRUE)
    /\ HasNumber(convCall.arg, "shadowOffsetX")
    /\ ~HasField(convCall.arg, "shadowOffsetY")
    /\ HasNumber(convCall.arg, "shadowBlur")
    /\ convOut._shadow._shadowOffset = [width |-> 5, height |-> 5]
    /\ convOut._shadow._shadowBlur = 2
    /\ convOut._shadow._shadowOpacity = 1

\* The object {fontName: "", shadowEnabled: true} was converted.
C20_WitnessEmptyName ==
    /\ FontConverted
    /\ convCall.arg = SeObject(<<"fontName", "shadowEnabled">>,
                               <<SeString(""), SeBoolean(TRUE)>>)
    /\ convOut._fontName = "Arial"
    /\ convOut._shadow._shadowOffset = [width |-> 5, height |-> 5]

\* An object with no recognised field was converted into a definition
\* that had a shadow and a stroke.
C20_WitnessNoField ==
    /\ FontConverted
    /\ convCall.arg = SeObject(<<"other">>, <<SeNumber(1)>>)
    /\ convCall.into._shadow._shadowEnabled
    /\ convOut._fontSize = 32
    /\ ~convOut._shadow._shadowEnabled

\* A number other than zero.
Nonzero(v) == v.num # 0 \/ v.str # ""

\* C21: seval_to_boolean returns true with the value itself for a
\* boolean, true with output true for every number other than zero and
\* output false for zero, and false with output false for a value of any
\* other kind.
C21_BooleanOfNumber ==
    convCall.op = "seval_to_boolean" =>
        /\ convCall.arg.type = "Boolean" =>
               convRet /\ convOut = [bool |-> convCall.arg = SeBoolean(TRUE)]
        /\ convCall.arg.type = "Number" =>
               convRet /\ convOut = [bool |-> Nonzero(convCall.arg)]
        /\ convCall.arg.type \notin {"Boolean", "Number"} =>
               ~convRet /\ convOut = [bool |-> FALSE]

\* The same for booleans, whole numbers and values of other kinds.
C21_BooleanOfWhole ==
    (convCall.op = "seval_to_boolean" /\ convCall.arg.str = "") =>
        /\ convCall.arg.type = "Boolean" =>
               convRet /\ convOut = [bool |-> convCall.arg = SeBoolean(TRUE)]
        /\ convCall.arg.type = "Number" =>
               convRet /\ convOut = [bool |-> convCall.arg.num # 0]
        /\ convCall.arg.type \notin {"Boolean", "Number"} =>
               ~convRet /\ convOut = [bool |-> FALSE]

UnimplementedToNative ==
    {"seval_to_TTFConfig", "seval_to_b2Vec2", "seval_to_b2AABB"}
UnimplementedToScript ==
    {"b2Vec2_to_seval", "b2Manifold_to_seval", "b2AABB_to_seval"}

\* C22: the TTF-config and 2D-physics conversions are unimplemented: for
\* every input none of them returns true to its caller.
C22_NeverSucceeds ==
    convCall.op \in UnimplementedToNative \cup UnimplementedToScript =>
        ~(convExit = "return" /\ convRet)

\* The three native-to-script ones never return true.
C22_ToScriptNeverSucceeds ==
    convCall.op \in UnimplementedToScript => ~(convExit = "return" /\ convRet)

\* The depth-stencil texture of the window is a live texture of the
\* requested size that is none of its colour textures.
OwnsDepthTexture ==
    /\ _depthStencilTexture # Null
    /\ textures[_depthStencilTexture] =
           [usage |-> "depth", width |-> winCall.info.width,
            height |-> winCall.info.height, alive |-> TRUE]
    /\ \A i \in 1 .. Len(_colorTextures) :
           _colorTextures[i] # _depthStencilTexture

\* C23 as stated: initialize with a depth-stencil descriptor allocates an
\* owned depth-stencil texture of the requested size and marks
\* has-off-screen-attachments, whatever the swapchain-buffer-index mask.
C23_DepthAllocated ==
    (winCall.op = "initialize" /\ winCall.info.depth)
        => (OwnsDepthTexture /\ hasOffScreenAttachments)

\* C23 amended: it does so exactly under a mask whose sign bit is clear;
\* under a negative mask the window holds no depth-stencil texture and
\* has-on-screen-attachments is marked.
C23_DepthAllocatedAmended ==
    (winCall.op = "initialize" /\ winCall.info.depth) =>
        IF ~Bit(_swapchainBufferIndices, 31)
        THEN OwnsDepthTexture /\ hasOffScreenAttachments
        ELSE _depthStencilTexture = Null /\ hasOnScreenAttachments

\* A window with a depth-stencil attachment and one swapchain-backed
\* colour slot was initialized: the depth texture is its only texture.
C23_Witness ==
    /\ winCall.op = "initialize"
    /\ winCall.info.depth
    /\ winCall.info.colors = 1
    /\ _swapchainBufferIndices = 1
    /\ winCall.info.width # winCall.info.height
    /\ OwnsDepthTexture
    /\ hasOffScreenAttachments /\ hasOnScreenAttachments

\* The same under the mask -1: no texture at all.
C23_WitnessOnScreen ==
    /\ winCall.op = "initialize"
    /\ winCall.info.depth
    /\ _swapchainBufferIndices = -1
    /\ _depthStencilTexture = Null
    /\ ~hasOffScreenAttachments

\* C24 as stated: a destroy() call on a window whose handle an earlier
\* destroy() has reset issues a destroy on a texture again.
C24_SecondDestroyReleases ==
    [][(winCall.op = "destroy" /\ winCall'.op = "destroy") =>
          \E k \in 1 .. Len(gfxLog') : gfxLog'[k].op = "destroyTexture"]_vars

\* C24 amended: such a call issues no destroy at all and leaves the
\* textures, the framebuffers and the window's references as they are.
C24_SecondDestroyIsNoOp ==
    [][(winCall.op = "destroy" /\ winCall'.op = "destroy") =>
          /\ gfxLog' = << >>
          /\ UNCHANGED <<textures, framebuffers, _colorTextures,
                         _depthStencilTexture, _poolHandle>>]_vars

\* A window that owned a colour texture and a depth-stencil texture was
\* destroyed, and destroyed again.
C24_Witness ==
    /\ winCall.op = "destroy"
    /\ gfxLog = << >>
    /\ \E k, l \in 1 .. Len(textures) :
           /\ textures[k].usage = "color" /\ ~textures[k].alive
           /\ textures[l].usage = "depth" /\ ~textures[l].alive

\* The bones from bone b up its parents to the first one that is named
\* "root" or has no parent.
RECURSIVE Ancestry(_)
Ancestry(b) ==
    IF bones[b].name = "root" \/ bones[b].parent = 0 THEN <<b>>
    ELSE <<b>> \o Ancestry(bones[b].parent)

AncestryNames(b) == [i \in 1 .. Len(Ancestry(b)) |-> bones[Ancestry(b)[i]].name]

\* The bone names of an emitted object and of the objects nested in its
\* parent field, ending where that field is undefined.
RECURSIVE Nesting(_, _)
Nesting(obj, fn) ==
    IF obj = SeUndefined THEN << >>
    ELSE IF obj.type # "Object" THEN <<"no object">>
    ELSE <<IF fn = "spbone_to_seval"
           THEN FieldOf(FieldOf(obj, "data"), "name").str
           ELSE FieldOf(obj, "name").str>>
             \o Nesting(FieldOf(obj, "parent"), fn)

BoneFinished == boneCall.fn # "none" /\ boneStack = << >>

BoneStopsAtRoot ==
    /\ Len(boneStack) <= Len(bones) + 1
    /\ BoneFinished =>
           /\ boneRet.ok
           /\ Nesting(boneRet.value, boneCall.fn) = AncestryNames(boneCall.bone)
           /\ boneCall.fn = "spbone_to_seval" =>
                  Nesting(FieldOf(boneRet.value, "data"), "spbonedata_to_seval")
                      = AncestryNames(boneCall.bone)

\* C25: spbonedata_to_seval and spbone_to_seval terminate on every finite
\* acyclic parent chain: every call returns, and returns true with
\* objects nested through the parent field from the bone up to the first
\* ancestor that is named "root" or has no parent, whose parent field is
\* undefined.
C25_BoneConversionStops ==
    /\ []BoneStopsAtRoot
    /\ (boneStack # << >>) ~> BoneFinished

\* The live bone of a bone whose parent is a bone named "root" that has a
\* parent itself was converted: two objects, the inner parent undefined.
C25_Witness ==
    /\ BoneFinished
    /\ boneCall = [fn |-> "spbone_to_seval", bone |-> 3]
    /\ bones[3].name = "hip" /\ bones[3].parent = 2
    /\ bones[2].name = "root" /\ bones[2].parent = 1
    /\ Nesting(boneRet.value, "spbone_to_seval") = <<"hip", "root">>
    /\ FieldOf(FieldOf(boneRet.value, "parent"), "parent") = SeUndefined

\* C26: after initialize and any sequence of resize calls, the
\* depth-stencil texture and every present colour texture of the window
\* have the native width and height, which are at least the logical
\* width and height.
C26_TexturesAtNativeSize ==
    /\ \A i \in 1 .. Len(_colorTextures) :
           _colorTextures[i] # Null =>
               /\ textures[_colorTextures[i]].width = _nativeWidth
               /\ textures[_colorTextures[i]].height = _nativeHeight
    /\ _depthStencilTexture # Null =>
           /\ textures[_depthStencilTexture].width = _nativeWidth
           /\ textures[_depthStencilTexture].height = _nativeHeight
    /\ _nativeWidth >= _width /\ _nativeHeight >= _height

\* A window with a colour texture and a depth-stencil texture was resized
\* beyond its native size and then to a smaller size: the textures keep
\* the native size, above the logical one.
C26_Witness ==
    /\ winCall.op = "resize"
    /\ gfxLog = << >>
    /\ _nativeWidth > _width
    /\ _nativeWidth > winCall.info.width
    /\ _depthStencilTexture # Null
    /\ textures[_depthStencilTexture].width = _nativeWidth
    /\ \E i \in 1 .. Len(_colorTextures) :
           /\ _colorTextures[i] # Null
           /\ textures[_colorTextures[i]].width = _nativeWidth

\* C27: after every initialize, also one on a window that is initialized
\* and not destroyed, the colour-texture list has one entry per colour
\* attachment of the info, and every live texture and framebuffer is one
\* the window refers to: none of an earlier initialize is left allocated.
C27_InitializeLeavesNoLeak ==
    winCall.op = "initialize" =>
        /\ Len(_colorTextures) = winCall.info.colors
        /\ \A k \in 1 .. Len(textures) :
               textures[k].alive =>
                   \/ k = _depthStencilTexture
                   \/ \E i \in 1 .. Len(_colorTextures) : _colorTextures[i] = k
        /\ \A f \in 1 .. Len(framebuffers) :
               framebuffers[f].alive => f = windowPool[_poolHandle].FRAMEBUFFER

\* The same after an initialize on a window never initialized before, or
\* destroyed since.
C27_FirstInitializeLeavesNoLeak ==
    (winCall.op = "initialize"
         /\ \A f \in 1 .. Len(framebuffers) - 1 : ~framebuffers[f].alive)
        => C27_InitializeLeavesNoLeak

\* The registry step registers the name of the call, not registered
\* before, under the bitmask 1 << k, k the number of names registered
\* before it, and counts it.
RegistersNext ==
    /\ stageCall'.op = "addStage"
    /\ stageCall'.name \notin Registered
    /\ _name2stageID' =
           [n \in Registered \cup {stageCall'.name} |->
                IF n = stageCall'.name
                THEN ShiftLeftOne(Cardinality(Registered))
                ELSE _name2stageID[n]]
    /\ _stageOffset' = _stageOffset + 1

\* C28: in every reachable registry state the bit-offset counter is the
\* number of registered names; the k-th name registered, counting from 0,
\* gets the bitmask 1 << k of the 32-bit shift; and stageID, stageIDs and
\* an addStage of a name that is registered or inherited leave the map
\* and the counter as they are.
C28_CounterCountsNames ==
    /\ [](_stageOffset = Cardinality(Registered))
    /\ [][\/ UNCHANGED <<_name2stageID, _stageOffset>>
          \/ /\ RegistersNext
             /\ Lookup(_name2stageID, stageCall'.name) = Undefined]_vars

\* Thirty-three names are registered: the last one has the bitmask 1 of
\* the first, the one before it the sign bit.
C28_Witness ==
    /\ _stageOffset = 33
    /\ stageCall.op = "addStage"
    /\ stageCall.name \in Registered
    /\ _name2stageID[stageCall.name] = 1
    /\ \E n \in Registered : _name2stageID[n] = MinInt32
    /\ Cardinality({n \in Registered : _name2stageID[n] = 1}) = 2

\* seval_to_ccvaluevector returned true for a list that was empty.
VectorConverted ==
    /\ convCall.op = "seval_to_ccvaluevector"
    /\ convCall.arg.type = "Array"
    /\ convCall.into = EmptyVector
    /\ convExit = "return" /\ convRet

\* Output element i + 1 is what seval_to_ccvalue makes of input element
\* i + 1 converted on its own into a fresh value, and that conversion
\* succeeds.
ConvertedAlone(i) ==
    LET alone == SevalToCcvalue(convCall.arg.items[i], CcNone, TRUE)
    IN  /\ alone.exit = "return" /\ alone.ret
        /\ convOut.items[i] = alone.out

\* C29: seval_to_ccvaluevector into an empty list yields on success one
\* output element per array element, each the conversion of the input
\* element at its index alone; a null or undefined element never leaves
\* the previous element's value in its place under a true return.
C29_ElementwiseConversion ==
    VectorConverted =>
        /\ Len(convOut.items) = Len(convCall.arg.items)
        /\ \A i \in 1 .. Len(convCall.arg.items) : ConvertedAlone(i)

\* The same for the arrays that hold no null and no undefined at any
\* depth.
C29_ElementwiseOfSupported ==
    (VectorConverted /\ Supported(convCall.arg)) =>
        /\ Len(convOut.items) = Len(convCall.arg.items)
        /\ \A i \in 1 .. Len(convCall.arg.items) : ConvertedAlone(i)

\* The array of a string and null was converted to the list of the string
\* twice, and true returned.
C29_PreviousElementStored ==
    /\ VectorConverted
    /\ convCall.arg = SeArray(<<SeString("a"), SeNull>>)
    /\ convOut = CcVector(<<CcString("a"), CcString("a")>>)

\* Two channels hold the same number.
SameChannel(p, q) == p.num * q.den = q.num * p.den

\* seval_to_Color4F was called on what Color4F_to_seval made of a colour.
Color4FRoundTrip ==
    /\ convCall.op = "seval_to_Color4F"
    /\ "r" \in DOMAIN convSrc

\* C30: Color4F_to_seval followed by seval_to_Color4F succeeds and gives
\* back the r, g, b and a of the colour converted.
C30_Color4FRoundTrip ==
    Color4FRoundTrip =>
        /\ convExit = "return" /\ convRet
        /\ SameChannel(convOut.r, convSrc.r)
        /\ SameChannel(convOut.g, convSrc.g)
        /\ SameChannel(convOut.b, convSrc.b)
        /\ SameChannel(convOut.a, convSrc.a)

\* The round trip succeeds, and gives back every channel divided by 255.
C30_Color4FRoundTripDivides ==
    Color4FRoundTrip =>
        /\ convExit = "return" /\ convRet
        /\ \A c \in {"r", "g", "b", "a"} :
              convOut[c].num * convSrc[c].den * 255
                  = convSrc[c].num * convOut[c].den

\* White went through the round trip and came back as 1/255 in every
\* channel.
C30_WhiteComesBackDark ==
    /\ Color4FRoundTrip
    /\ convSrc = Color4F(1, 1, 1, 1)
    /\ convRet
    /\ convOut.r = Quotient(1, 255) /\ convOut.a = Quotient(1, 255)

====
